---------------------------- MODULE Spec2Model ----------------------------
(***************************************************************************)
(* Model of the dependency-tracking memoization engine of 0k/cache:        *)
(*   - match (src/src/match.ts)                                            *)
(*   - trackImprintSplit / build / ImprintTreeMap (src/src/proxyTrackMap.ts)*)
(*   - track / cleanNode (src/src/track.ts)                                *)
(*   - ProxyCacheStore.getValue (src/unnamed/part_002)                     *)
(*   - the cache decorator and JsonKeyCacheStore (src/src/cache.ts)        *)
(*   - noCacheOnReject / cacheOnSettled (src/src/track.ts)                 *)
(*                                                                         *)
(* JavaScript values are records tagged by field t:                        *)
(*   [t |-> "prim", v |-> n]   a number                                    *)
(*   [t |-> "undef"]           undefined                                   *)
(*   [t |-> "ref", id |-> n]   a reference to the heap object n            *)
(*   [t |-> "obj", ...]        an object given inline (immutable inputs)   *)
(* An object has a constructor (ctor, "None" for an object without         *)
(* prototype), its own keys in Reflect.ownKeys order (own), the set of     *)
(* its enumerable keys (enum) and its property values (val).               *)
(* An imprint is a record tagged t = "imp" whose optional fields ctor,     *)
(* read, has, ownKeys are present exactly when the JavaScript object has   *)
(* the property.                                                           *)
(***************************************************************************)
EXTENDS Integers, Sequences, FiniteSets, TLC

VARIABLES
    collected,   \* constructors whose WeakRef target has been collected
    sA, sB,      \* split: the two imprints handed to trackImprintSplit
    sOut,        \* split: its result (or "none" before the call)
    roots,       \* ImprintTreeMap.roots
    inserted,    \* history of the (imprint, value) pairs handed to set
    res,         \* outcome of the last set / get / getValue
    heap,        \* the objects of the program, by identity
    nodes,       \* track: the imprint nodes made by makeNode, root first
    phase,       \* track: "idle", "tracing" or "revoked"
    frozen,      \* track: the imprint returned by getTrackAndRevoke
    tlog,        \* track: the accesses performed through the views
    tout,        \* track: what the last operation on a view returned
    tacc,        \* track: the last operation (track itself, or on a view)
    handed,      \* track: the views the get trap has handed out
    revoked,     \* track: the nodes whose proxy has been revoked
    nops,        \* number of accesses / calls / mutations made so far
    fn,          \* ProxyCacheStore: the wrapped function
    opts,        \* cache: the options of each decorated method
    made,        \* cache: the instances constructed so far, in order
    clearFn,     \* cache: the instance wrapped.clearCache clears, per method
    klassCaches, \* cache: allCaches.get(klass), the methods registered
    clearers,    \* cache: the instances with an own clearCaches property
    caches,      \* cache: instanceCacheMap of each method, by instance
    evald,       \* cache: evaluations that returned in the life of a store
    cres,        \* cache: the last call or clear and its outcome
    promises,    \* async: the promises created so far, by identity
    jobs,        \* async: the microtask queue
    calls,       \* async: the calls made so far
    observed     \* async: what each caller's await has yielded, in order

splitVars == <<sA, sB, sOut>>
mapVars == <<roots, inserted>>
trackVars == <<nodes, phase, frozen, tlog, tout, tacc, handed, revoked>>
decoVars == <<opts, made, clearFn, klassCaches, clearers>>
asyncVars == <<promises, jobs, calls, observed>>
cacheVars == <<decoVars, caches, evald, cres, asyncVars>>

\* No decorated class has been defined.
NoCaches ==
    /\ opts = <<>>
    /\ made = <<>>
    /\ clearFn = <<>>
    /\ klassCaches = {}
    /\ clearers = {}
    /\ caches = <<>>
    /\ evald = <<>>
    /\ cres = [t |-> "none"]
    /\ promises = <<>>
    /\ jobs = <<>>
    /\ calls = <<>>
    /\ observed = <<>>
vars == <<collected, sA, sB, sOut, roots, inserted, res, heap, nodes, phase,
          frozen, tlog, tout, tacc, handed, revoked, nops, fn, opts, made,
          clearFn, klassCaches, clearers, caches, evald, cres, promises,
          jobs, calls, observed>>

-----------------------------------------------------------------------------
(* Bounds *)

MaxInserts == 3

-----------------------------------------------------------------------------
(* JavaScript values and objects *)

Undefined == [t |-> "undef"]
Prim(n) == [t |-> "prim", v |-> n]
Ref(n) == [t |-> "ref", id |-> n]

EmptyMap == [k \in {} |-> k]

\* A map given as a set of <<key, value>> pairs.
MapOf(pairs) == [k \in {p[1] : p \in pairs} |->
                    (CHOOSE p \in pairs : p[1] = k)[2]]

\* Symbol keys are written with a leading "@"; every other key is a string.
SymbolKeys == {"@s"}
IsSymbol(k) == k \in SymbolKeys

\* The element of a singleton: evaluates a value once, to name it.
Only(S) == CHOOSE x \in S : TRUE

Range(s) == {s[i] : i \in 1..Len(s)}

\* Object.keys(o) of a plain record used as a map: its string keys only.
ObjectKeysOfMap(m) == {k \in DOMAIN m : ~IsSymbol(k)}

\* Resolve a value to the object it denotes (a reference into heap h or an
\* inline object).
IsObject(v) == v.t \in {"ref", "obj"}
Deref(h, v) == IF v.t = "ref" THEN h[v.id] ELSE v

\* Reflect.get(o, k) / o[k]: the own property or undefined.
ReflectGet(h, v, k) ==
    LET o == Deref(h, v)
    IN IF k \in DOMAIN o.val THEN o.val[k] ELSE Undefined

\* Reflect.has(o, k) / (k in o).
ReflectHas(h, v, k) == k \in DOMAIN Deref(h, v).val

\* Reflect.ownKeys(o): every own key, non-enumerable and symbol keys included.
ReflectOwnKeys(h, v) == Deref(h, v).own

\* Object.keys(o): the enumerable string keys, in own-key order.
ObjectKeys(h, v) ==
    LET o == Deref(h, v)
        Keep(k) == k \in o.enum /\ ~IsSymbol(k)
    IN SelectSeq(o.own, Keep)

\* o.constructor: "None" stands for undefined (object without prototype).
ConstructorOf(h, v) == Deref(h, v).ctor

\* WeakRef.deref(): the constructor while it is live, "None" (undefined) after
\* it has been collected.
WeakDeref(c) == IF c \in collected THEN "None" ELSE c

-----------------------------------------------------------------------------
(* Imprints *)

ImpTag == [t |-> "imp"]
IsImprint(e) == e.t = "imp"
Opt(name, present, v) == IF present THEN (name :> v) ELSE EmptyMap

\* An imprint literal: Some(x) / None say whether the optional field is set.
None == <<>>
Some(x) == <<x>>
Imprint(ctor, read, has, ownKeys) ==
    ImpTag @@ Opt("ctor", ctor # None, IF ctor # None THEN ctor[1] ELSE "")
           @@ Opt("read", read # None, IF read # None THEN read[1] ELSE EmptyMap)
           @@ Opt("has", has # None, IF has # None THEN has[1] ELSE EmptyMap)
           @@ Opt("ownKeys", ownKeys # None,
                  IF ownKeys # None THEN ownKeys[1] ELSE <<>>)

Has(imp, f) == f \in DOMAIN imp
ReadOf(imp) == IF Has(imp, "read") THEN imp.read ELSE EmptyMap
HasOf(imp) == IF Has(imp, "has") THEN imp.has ELSE EmptyMap

-----------------------------------------------------------------------------
(* match (src/src/match.ts) *)

RECURSIVE match(_, _, _)

\* match with the own keys compared as sets, whatever their order.
matchKeysUnordered(h, imprint, obj) ==
    IF ~IsObject(obj) THEN FALSE
    ELSE
        /\ Has(imprint, "ctor") =>
              LET expected == WeakDeref(imprint.ctor)
              IN ~(expected # "None" /\ ConstructorOf(h, obj) # expected)
        /\ \A key \in DOMAIN HasOf(imprint) :
              ReflectHas(h, obj, key) = imprint.has[key]
        /\ Has(imprint, "ownKeys") =>
              Range(ObjectKeys(h, obj)) = Range(imprint.ownKeys)
        /\ \A key \in DOMAIN ReadOf(imprint) :
              LET expected == imprint.read[key]
                  actual == ReflectGet(h, obj, key)
              IN IF IsImprint(expected)
                 THEN match(h, expected, actual)
                 ELSE actual = expected

\* match without the test that the handle is live: a collected constructor
\* is compared as undefined.
matchDeadCtorFails(h, imprint, obj) ==
    IF ~IsObject(obj) THEN FALSE
    ELSE
        /\ Has(imprint, "ctor") =>
              ConstructorOf(h, obj) = WeakDeref(imprint.ctor)
        /\ \A key \in DOMAIN HasOf(imprint) :
              ReflectHas(h, obj, key) = imprint.has[key]
        /\ Has(imprint, "ownKeys") => ObjectKeys(h, obj) = imprint.ownKeys
        /\ \A key \in DOMAIN ReadOf(imprint) :
              LET expected == imprint.read[key]
                  actual == ReflectGet(h, obj, key)
              IN IF IsImprint(expected)
                 THEN match(h, expected, actual)
                 ELSE actual = expected

\* match that also requires every own key of the object to be a key the
\* imprint read or probed: structural equality instead of the footprint.
matchWholeObject(h, imprint, obj) ==
    IF ~IsObject(obj) THEN FALSE
    ELSE
        /\ Has(imprint, "ctor") =>
              LET expected == WeakDeref(imprint.ctor)
              IN ~(expected # "None" /\ ConstructorOf(h, obj) # expected)
        /\ \A key \in DOMAIN HasOf(imprint) :
              ReflectHas(h, obj, key) = imprint.has[key]
        /\ Has(imprint, "ownKeys") => ObjectKeys(h, obj) = imprint.ownKeys
        /\ Range(ReflectOwnKeys(h, obj))
              \subseteq DOMAIN ReadOf(imprint) \cup DOMAIN HasOf(imprint)
        /\ \A key \in DOMAIN ReadOf(imprint) :
              LET expected == imprint.read[key]
                  actual == ReflectGet(h, obj, key)
              IN IF IsImprint(expected)
                 THEN match(h, expected, actual)
                 ELSE actual = expected

match(h, imprint, obj) ==
    IF ~IsObject(obj) THEN FALSE
    ELSE
        \* optional ctor check: skipped when the handle is dead
        /\ Has(imprint, "ctor") =>
              LET expected == WeakDeref(imprint.ctor)
              IN ~(expected # "None" /\ ConstructorOf(h, obj) # expected)
        \* optional has check
        /\ \A key \in DOMAIN HasOf(imprint) :
              ReflectHas(h, obj, key) = imprint.has[key]
        \* optional ownKeys: compared with Object.keys(obj)
        /\ Has(imprint, "ownKeys") => ObjectKeys(h, obj) = imprint.ownKeys
        \* property check
        /\ \A key \in DOMAIN ReadOf(imprint) :
              LET expected == imprint.read[key]
                  actual == ReflectGet(h, obj, key)
              IN IF IsImprint(expected)
                 THEN match(h, expected, actual)
                 ELSE actual = expected

-----------------------------------------------------------------------------
(* trackImprintSplit (src/src/proxyTrackMap.ts) *)

TypeError == [t |-> "TypeError"]
NoMatchingError == [t |-> "NoMatchingError"]
Null == [t |-> "null"]
Truthy(x) == x # Null

\* a.deref() on an absent handle throws a TypeError; b.deref() is evaluated
\* only when a's target is live.
sameCtorThrows(A, B) ==
    \/ ~Has(A, "ctor")
    \/ WeakDeref(A.ctor) # "None" /\ ~Has(B, "ctor")

sameCtor(A, B) ==
    LET ca == WeakDeref(A.ctor)
    IN ca # "None" /\ ca = WeakDeref(B.ctor)

\* The object literal always evaluates to an object: a field is spread in
\* when its guard is truthy.  read and has are always passed by the caller.
build(ctor, read, has, ownKeys) ==
    ImpTag @@ Opt("ctor", ctor # None, IF ctor # None THEN ctor[1] ELSE "")
           @@ Opt("read", ObjectKeysOfMap(read) # {}, read)
           @@ Opt("has", ObjectKeysOfMap(has) # {}, has)
           @@ Opt("ownKeys", ownKeys # None /\ Len(ownKeys[1]) # 0,
                  IF ownKeys # None THEN ownKeys[1] ELSE <<>>)

\* aVal === bVal: value equality of primitives; two imprint objects are
\* distinct objects (every imprint handed to the map is freshly built).
StrictEq(a, b) == ~IsImprint(a) /\ ~IsImprint(b) /\ a = b

bothObj(a, b) ==
    IsImprint(a) /\ IsImprint(b) /\ Has(a, "read") /\ Has(b, "read")

RECURSIVE trackImprintSplit(_, _)
trackImprintSplit(A, B) ==
    IF sameCtorThrows(A, B) THEN TypeError
    ELSE
    LET same == sameCtor(A, B)
        ctorInt == IF same THEN Some(A.ctor) ELSE None
        ctorOnlyA == IF ~same /\ Has(A, "ctor") THEN Some(A.ctor) ELSE None
        ctorOnlyB == IF ~same /\ Has(B, "ctor") THEN Some(B.ctor) ELSE None
        \* ownKeys
        sameKeys == Has(A, "ownKeys") /\ Has(B, "ownKeys")
                    /\ A.ownKeys = B.ownKeys
        ownKeysInt == IF sameKeys THEN Some(A.ownKeys) ELSE None
        ownKeysOnlyA ==
            IF ~sameKeys /\ Has(A, "ownKeys") THEN Some(A.ownKeys) ELSE None
        ownKeysOnlyB ==
            IF ~sameKeys /\ Has(B, "ownKeys") THEN Some(B.ownKeys) ELSE None
        \* has keys
        aHas == HasOf(A)
        bHas == HasOf(B)
        hasBoth == DOMAIN aHas \cap DOMAIN bHas
        commonHas == [k \in {x \in hasBoth : aHas[x] = bHas[x]} |-> aHas[k]]
        onlyAHas == [k \in {x \in DOMAIN aHas :
                              x \notin DOMAIN bHas \/ aHas[x] # bHas[x]}
                     |-> aHas[k]]
        onlyBHas == [k \in {x \in DOMAIN bHas :
                              x \notin DOMAIN aHas \/ aHas[x] # bHas[x]}
                     |-> bHas[k]]
        \* read keys
        aRead == ReadOf(A)
        bRead == ReadOf(B)
        readBoth == DOMAIN aRead \cap DOMAIN bRead
        rec == {k \in readBoth : bothObj(aRead[k], bRead[k])}
        sub == MapOf({<<k, trackImprintSplit(aRead[k], bRead[k])>> : k \in rec})
        eq == {k \in readBoth \ rec : StrictEq(aRead[k], bRead[k])}
        ne == (readBoth \ rec) \ eq
        commonRead ==
            [k \in {x \in rec : Truthy(sub[x].i)} \cup eq |->
                IF k \in rec THEN sub[k].i ELSE aRead[k]]
        onlyARead ==
            [k \in (DOMAIN aRead \ DOMAIN bRead)
                   \cup {x \in rec : Truthy(sub[x].a)} \cup ne |->
                IF k \in rec THEN sub[k].a ELSE aRead[k]]
        onlyBRead ==
            [k \in (DOMAIN bRead \ DOMAIN aRead)
                   \cup {x \in rec : Truthy(sub[x].b)} \cup ne |->
                IF k \in rec THEN sub[k].b ELSE bRead[k]]
    IN IF \E k \in rec : sub[k] = TypeError THEN TypeError
       ELSE [t |-> "split",
             i |-> build(ctorInt, commonRead, commonHas, ownKeysInt),
             a |-> build(ctorOnlyA, onlyARead, onlyAHas, ownKeysOnlyA),
             b |-> build(ctorOnlyB, onlyBRead, onlyBHas, ownKeysOnlyB)]

-----------------------------------------------------------------------------
(* ImprintTreeMap (src/src/proxyTrackMap.ts) *)

\* A Node: the field value is present exactly when the JavaScript object has
\* the property.
Leaf(imprint, value) ==
    [imprint |-> imprint, value |-> value, children |-> <<>>]
Inner(imprint, children) == [imprint |-> imprint, children |-> children]
HasValue(node) == "value" \in DOMAIN node

\* A normal completion with its result; a throw is the error record itself.
Ok(v) == [t |-> "ok", value |-> v]
Threw(r) == r.t # "ok"

RECURSIVE insertFrom(_, _, _, _)
insertFrom(list, i, imprint, value) ==
    IF i > Len(list)
    THEN \* no intersection with any existing root: push as new root
         Ok(Append(list, Leaf(imprint, value)))
    ELSE
    LET node == list[i]
        sp == trackImprintSplit(node.imprint, imprint)
    IN IF sp = TypeError THEN TypeError
       ELSE IF ~Truthy(sp.i) THEN insertFrom(list, i + 1, imprint, value)
       ELSE
       LET \* 2. the existing branch becomes a child
           kidsA ==
               IF Truthy(sp.a) THEN <<[node EXCEPT !.imprint = sp.a]>>
               ELSE IF HasValue(node) \/ Len(node.children) # 0
                    THEN <<node>>
                    ELSE <<>>
           \* 3. the new branch becomes a child or the node itself
           interNode ==
               IF Truthy(sp.b)
               THEN Inner(sp.i, kidsA \o <<Leaf(sp.b, value)>>)
               ELSE ("value" :> value) @@ Inner(sp.i, kidsA)
       IN Ok([list EXCEPT ![i] = interNode])

insertIntoList(list, imprint, value) == insertFrom(list, 1, imprint, value)

RECURSIVE lookupFrom(_, _, _, _)
lookupFrom(h, list, i, obj) ==
    IF i > Len(list) THEN NoMatchingError
    ELSE
    LET node == list[i]
    IN IF ~match(h, node.imprint, obj) THEN lookupFrom(h, list, i + 1, obj)
       ELSE IF HasValue(node) THEN Ok(node.value)
       ELSE LET r == lookupFrom(h, node.children, 1, obj)
            IN IF r = NoMatchingError
               THEN lookupFrom(h, list, i + 1, obj)
               ELSE r

lookupInList(h, list, obj) == lookupFrom(h, list, 1, obj)

-----------------------------------------------------------------------------
(* Inputs *)

NoHeap == <<>>

\* A plain object: every own key enumerable.
Obj(ctor, own, pairs) ==
    [t |-> "obj", ctor |-> ctor, own |-> own, enum |-> Range(own),
     val |-> MapOf(pairs)]

Classes == {"Object", "Foo"}

\* Imprints of a sub-object {}, {a: 1} or {a: 2} as getTrackAndRevoke
\* returns them.
SubShapes ==
    { Imprint(Some("Object"), Some(MapOf({<<"a", Prim(1)>>})), None, None),
      Imprint(Some("Object"), Some(MapOf({<<"a", Prim(2)>>})), None, None),
      Imprint(Some("Object"), None, None, Some(<<"a">>)),
      Imprint(Some("Object"), Some(MapOf({<<"a", Undefined>>})), None,
              Some(<<>>)) }

OptPairs(k, vs) == {{}} \cup {{<<k, v>>} : v \in vs}

\* Root imprints as getTrackAndRevoke returns them: the ctor is always set,
\* read and has are present only with a string key.
TopShapes ==
    { Imprint(Some(c),
              IF r = {} THEN None ELSE Some(MapOf(r)),
              IF hz = {} THEN None ELSE Some(MapOf(hz)),
              None) :
        c \in Classes,
        r \in { x \cup y \cup s :
                  x \in OptPairs("x", {Prim(1), Prim(2)}),
                  y \in OptPairs("y", {Prim(2)} \cup SubShapes),
                  s \in OptPairs("@s", {Prim(1), Prim(2)}) } \
              { s : s \in OptPairs("@s", {Prim(1), Prim(2)}) \ {{}} },
        hz \in OptPairs("z", {TRUE, FALSE}) }
    \cup
    { Imprint(Some(c), r, None, Some(<<>>)) :
        c \in Classes, r \in {None, Some(MapOf({<<"x", Undefined>>}))} }

\* The imprints handed to ImprintTreeMap.set.
ImpA == Imprint(Some("Object"), Some(MapOf({<<"x", Prim(1)>>})), None, None)
ImpB == Imprint(Some("Object"),
                Some(MapOf({<<"x", Prim(1)>>, <<"y", Prim(2)>>})), None, None)
ImpFoo == Imprint(Some("Foo"), Some(MapOf({<<"x", Prim(1)>>})), None, None)
ImpEmptyKeys == Imprint(Some("Object"), None, None, Some(<<>>))
ImpSym == Imprint(Some("Object"),
                  Some(MapOf({<<"x", Prim(1)>>, <<"@s", Prim(1)>>})),
                  None, None)
ImpSub == Imprint(Some("Object"),
                  Some(MapOf({<<"y", Imprint(Some("Object"),
                                 Some(MapOf({<<"a", Prim(1)>>})), None, None)>>})),
                  None, None)

MapShapes == {ImpA, ImpB, ImpFoo, ImpEmptyKeys, ImpSym, ImpSub}

Values == {10, 20}

\* The objects handed to ImprintTreeMap.get.
ObjX1 == Obj("Object", <<"x">>, {<<"x", Prim(1)>>})
ObjX1Y2 == Obj("Object", <<"x", "y">>, {<<"x", Prim(1)>>, <<"y", Prim(2)>>})
ObjSubA1 == Obj("Object", <<"a">>, {<<"a", Prim(1)>>})
ObjSubA2 == Obj("Object", <<"a">>, {<<"a", Prim(2)>>})

MapObjects ==
    { ObjX1, ObjX1Y2,
      Obj("Object", <<>>, {}),
      Obj("Object", <<"x">>, {<<"x", Prim(2)>>}),
      Obj("Object", <<"y">>, {<<"y", Prim(2)>>}),
      Obj("Foo", <<"x">>, {<<"x", Prim(1)>>}),
      Obj("Foo", <<"x", "y">>, {<<"x", Prim(1)>>, <<"y", Prim(2)>>}),
      Obj("Object", <<"x", "@s">>, {<<"x", Prim(1)>>, <<"@s", Prim(1)>>}),
      Obj("Object", <<"x", "@s">>, {<<"x", Prim(1)>>, <<"@s", Prim(2)>>}),
      Obj("Object", <<"y">>, {<<"y", ObjSubA1>>}),
      Obj("Object", <<"y">>, {<<"y", ObjSubA2>>}),
      Obj("Object", <<"x", "y">>, {<<"x", Prim(1)>>, <<"y", ObjSubA1>>}) }

-----------------------------------------------------------------------------
(* Specification of trackImprintSplit alone: SpecSplit *)

NotRun == [t |-> "none"]

\* A class whose objects are all gone may be collected; Object never is.
Collectable == Classes \ {"Object"}

UsesClass(imp, c) == Has(imp, "ctor") /\ imp.ctor = c

InitSplit ==
    /\ collected = {}
    /\ sA \in TopShapes
    /\ sB \in TopShapes
    /\ sOut = NotRun
    /\ roots = <<>>
    /\ inserted = <<>>
    /\ res = NotRun
    /\ heap = <<>>
    /\ nodes = <<>>
    /\ phase = "idle"
    /\ frozen = NotRun
    /\ tlog = {}
    /\ tout = NotRun
    /\ tacc = NotRun
    /\ handed = {}
    /\ revoked = {}
    /\ nops = [acc |-> 0, mut |-> 0, call |-> 0, eval |-> 0]
    /\ fn = <<>>
    /\ NoCaches

\* trackImprintSplit(sA, sB)
Split ==
    /\ sOut = NotRun
    /\ sOut' = trackImprintSplit(sA, sB)
    /\ UNCHANGED <<collected, sA, sB, mapVars, res, heap, trackVars, nops,
                   fn, cacheVars>>

\* insertIntoList keeps the intersection as the root's imprint and splits it
\* against the next incoming imprint.
Resplit ==
    /\ sOut # NotRun
    /\ sOut # TypeError
    /\ \E B \in MapShapes :
          /\ \A c \in collected : ~UsesClass(B, c)
          /\ sA' = sOut.i
          /\ sB' = B
    /\ sOut' = NotRun
    /\ UNCHANGED <<collected, mapVars, res, heap, trackVars, nops,
                   fn, cacheVars>>

\* The garbage collector clears the WeakRefs of a class.
CollectSplit ==
    /\ sOut # NotRun
    /\ \E c \in Collectable \ collected : collected' = collected \cup {c}
    /\ UNCHANGED <<splitVars, mapVars, res, heap, trackVars, nops,
                   fn, cacheVars>>

NextSplit == Split \/ Resplit \/ CollectSplit

SpecSplit == InitSplit /\ [][NextSplit]_vars

-----------------------------------------------------------------------------
(* Specification of ImprintTreeMap: Spec *)

Init ==
    /\ collected = {}
    /\ sA = NotRun
    /\ sB = NotRun
    /\ sOut = NotRun
    /\ roots = <<>>
    /\ inserted = <<>>
    /\ res = NotRun
    /\ heap = <<>>
    /\ nodes = <<>>
    /\ phase = "idle"
    /\ frozen = NotRun
    /\ tlog = {}
    /\ tout = NotRun
    /\ tacc = NotRun
    /\ handed = {}
    /\ revoked = {}
    /\ nops = [acc |-> 0, mut |-> 0, call |-> 0, eval |-> 0]
    /\ fn = <<>>
    /\ NoCaches

\* ImprintTreeMap.set(imprint, value)
Set ==
    /\ Len(inserted) < MaxInserts
    /\ \E imprint \in MapShapes, value \in Values :
          /\ \A c \in collected : ~UsesClass(imprint, c)
          /\ \E out \in { insertIntoList(roots, imprint, value) } :
                /\ roots' = IF Threw(out) THEN roots ELSE out.value
                /\ res' = [t |-> "set", threw |-> Threw(out)]
                /\ inserted' = Append(inserted,
                                      [imprint |-> imprint, value |-> value,
                                       threw |-> Threw(out)])
    /\ UNCHANGED <<collected, splitVars, heap, trackVars, nops, fn, cacheVars>>

\* ImprintTreeMap.get(obj)
Get ==
    /\ \E obj \in MapObjects :
          /\ obj.ctor \notin collected
          /\ res' = [t |-> "get", obj |-> obj,
                     out |-> lookupInList(NoHeap, roots, obj)]
    /\ UNCHANGED <<collected, splitVars, mapVars, heap, trackVars, nops,
                   fn, cacheVars>>

\* The garbage collector clears the WeakRefs of a class.
Collect ==
    /\ \E c \in Collectable \ collected : collected' = collected \cup {c}
    /\ res' = NotRun
    /\ UNCHANGED <<splitVars, mapVars, heap, trackVars, nops, fn, cacheVars>>

Next == Set \/ Get \/ Collect

Spec == Init /\ [][Next]_vars

-----------------------------------------------------------------------------
(* Observations asserted by an imprint *)

\* The set of assertions an imprint makes, each with the access path of the
\* node that carries it.
RECURSIVE Obs(_, _)
Obs(imp, path) ==
    (IF Has(imp, "ctor")
     THEN {[p |-> path, kind |-> "ctor", key |-> "",
            v |-> [t |-> "ctor", c |-> imp.ctor]]}
     ELSE {})
    \cup
    (IF Has(imp, "ownKeys")
     THEN {[p |-> path, kind |-> "ownKeys", key |-> "",
            v |-> [t |-> "keys", s |-> imp.ownKeys]]}
     ELSE {})
    \cup
    {[p |-> path, kind |-> "has", key |-> k,
      v |-> [t |-> "bool", b |-> imp.has[k]]] : k \in DOMAIN HasOf(imp)}
    \cup
    {[p |-> path, kind |-> "read", key |-> k,
      v |-> IF IsImprint(imp.read[k]) THEN [t |-> "object"] ELSE imp.read[k]] :
        k \in DOMAIN ReadOf(imp)}
    \cup
    UNION {Obs(imp.read[k], Append(path, k)) :
             k \in {x \in DOMAIN ReadOf(imp) : IsImprint(imp.read[x])}}

\* An assertion other than "the value read at this key is an object", which
\* every imprint nested at that key repeats.
Proper(o) == o.v.t # "object"

\* The observations of the path from a root to each node that carries a
\* value, with that value.
RECURSIVE PathObs(_, _)
PathObs(list, acc) ==
    UNION { LET node == list[i]
                here == acc \cup Obs(node.imprint, <<>>)
            IN (IF HasValue(node)
                THEN {[obs |-> here, value |-> node.value]}
                ELSE {})
               \cup PathObs(node.children, here) : i \in 1..Len(list) }

Stored == {i \in 1..Len(inserted) : ~inserted[i].threw}

-----------------------------------------------------------------------------
(* Claims on ImprintTreeMap and trackImprintSplit *)

\* C2: after insert(I, v), get of an object x with match(I, x) does not fail
\* with NoMatch and returns a value inserted with an imprint that also
\* matches x; when I is the only imprint inserted, it returns v.
C2_LookupFindsMatchingEntry ==
    res.t = "get" =>
        \A k \in 1..Len(inserted) :
            match(NoHeap, inserted[k].imprint, res.obj) =>
                /\ res.out.t = "ok"
                /\ \E j \in 1..Len(inserted) :
                      /\ inserted[j].value = res.out.value
                      /\ match(NoHeap, inserted[j].imprint, res.obj)
                /\ Len(inserted) = 1 => res.out.value = inserted[1].value

\* C3: for every node that carries a value, the union of the imprint deltas
\* on the path from its root asserts exactly the observations of an imprint
\* that value was inserted with.
C3_PathUnionIsInsertedImprint ==
    \A e \in PathObs(roots, {}) :
        \E k \in Stored :
            /\ inserted[k].value = e.value
            /\ Obs(inserted[k].imprint, <<>>) = e.obs

\* C5: after insert(I, v1) followed by insert(I', v2) with I' identical to I,
\* get of any object matching I returns v2.
C5_ReinsertOverwrites ==
    (/\ res.t = "get"
     /\ Len(inserted) = 2
     /\ inserted[1].imprint = inserted[2].imprint
     /\ match(NoHeap, inserted[2].imprint, res.obj))
    => res.out = Ok(inserted[2].value)

\* Nodes that carry a value and have children.
RECURSIVE ValuedParents(_)
ValuedParents(list) ==
    UNION { (IF HasValue(list[i]) /\ Len(list[i].children) # 0
             THEN {list[i]} ELSE {})
            \cup ValuedParents(list[i].children) : i \in 1..Len(list) }

\* C6: when an input matches a node that carries a value and one of its
\* children, get returns the child's value; after inserting
\* A = {read: {x: 1}} -> 10 and B = {read: {x: 1, y: 2}} -> 20,
\* get({x: 1, y: 2}) returns 20 and get({x: 1}) returns 10.
C6_ChildWins ==
    /\ \A n \in ValuedParents(roots), x \in MapObjects :
          (/\ match(NoHeap, n.imprint, x)
           /\ lookupInList(NoHeap, n.children, x) # NoMatchingError)
          => lookupInList(NoHeap, <<n>>, x)
                = lookupInList(NoHeap, n.children, x)
    /\ (/\ res.t = "get"
        /\ inserted = <<[imprint |-> ImpA, value |-> 10, threw |-> FALSE],
                        [imprint |-> ImpB, value |-> 20, threw |-> FALSE]>>)
       => /\ res.obj = ObjX1Y2 => res.out = Ok(20)
          /\ res.obj = ObjX1 => res.out = Ok(10)

\* C7: get of an object compatible with no stored entry fails with
\* NoMatchingError, and get leaves the map unchanged.
C7_NoMatchWhenIncompatible ==
    /\ [](res.t = "get"
          => ((\A k \in Stored : ~match(NoHeap, inserted[k].imprint, res.obj))
              => res.out = NoMatchingError))
    /\ [][Get => roots' = roots]_vars

\* C8: split(A, B) = (I, A\I, B\I) is a partition: I with A\I asserts exactly
\* the observations of A, I with B\I exactly those of B, and no assertion is
\* both in I and in a remainder.
C8_SplitIsPartition ==
    sOut # NotRun =>
        /\ sOut.t = "split"
        /\ Obs(sOut.i, <<>>) \cup Obs(sOut.a, <<>>) = Obs(sA, <<>>)
        /\ Obs(sOut.i, <<>>) \cup Obs(sOut.b, <<>>) = Obs(sB, <<>>)
        /\ \A o \in Obs(sOut.i, <<>>) :
              Proper(o) => /\ o \notin Obs(sOut.a, <<>>)
                           /\ o \notin Obs(sOut.b, <<>>)

-----------------------------------------------------------------------------
(* track (src/src/track.ts) *)

MaxAccesses == 3
MaxMutations == 1

NodeRef(n) == [t |-> "node", id |-> n]
View(n) == [t |-> "view", id |-> n]

\* makeNode(obj): a fresh imprint node.  obj is the object its proxy is bound
\* to and path the keys read from the root to reach it.
makeNode(h, v, path) ==
    [obj |-> v.id, path |-> path,
     ctor |-> IF ConstructorOf(h, v) = "None" THEN "Object"
              ELSE ConstructorOf(h, v),
     read |-> EmptyMap, has |-> EmptyMap, ownKeys |-> None]

\* The get trap with the proxies reused per object instead of per node: an
\* object reached under a second key gets the view, and the node, of the first.
TrapGetByObject(h, ns, n, k) ==
    LET node == ns[n]
        val == ReflectGet(h, Ref(node.obj), k)
        same == IF val.t = "ref"
                THEN {m \in 1..Len(ns) : ns[m].obj = val.id} ELSE {}
        m == CHOOSE x \in same : TRUE
    IN IF val.t = "ref"
       THEN IF same # {}
            THEN [nodes |-> [ns EXCEPT ![n].read = (k :> NodeRef(m)) @@ @],
                  out |-> View(m)]
            ELSE [nodes |-> Append([ns EXCEPT ![n].read =
                                        (k :> NodeRef(Len(ns) + 1)) @@ @],
                                   makeNode(h, val, Append(node.path, k))),
                  out |-> View(Len(ns) + 1)]
       ELSE [nodes |-> [ns EXCEPT ![n].read = (k :> val) @@ @], out |-> val]

\* The get trap with a new child node and proxy made at every read of an
\* object.
TrapGetFresh(h, ns, n, k) ==
    LET node == ns[n]
        val == ReflectGet(h, Ref(node.obj), k)
    IN IF val.t = "ref"
       THEN [nodes |-> Append([ns EXCEPT ![n].read =
                                   (k :> NodeRef(Len(ns) + 1)) @@ @],
                              makeNode(h, val, Append(node.path, k))),
             out |-> View(Len(ns) + 1)]
       ELSE [nodes |-> [ns EXCEPT ![n].read = (k :> val) @@ @], out |-> val]

\* The get trap of the proxy of node n.  makeProxy reuses the proxy of a
\* child node; a child that is a primitive cannot be a WeakMap key.
TrapGet(h, ns, n, k) ==
    LET node == ns[n]
        val == ReflectGet(h, Ref(node.obj), k)
    IN IF val.t = "ref"
       THEN IF k \notin DOMAIN node.read
            THEN [nodes |-> Append([ns EXCEPT ![n].read = (k :> NodeRef(Len(ns) + 1)) @@ @],
                                   makeNode(h, val, Append(node.path, k))),
                  out |-> View(Len(ns) + 1)]
            ELSE IF node.read[k].t = "node"
                 THEN [nodes |-> ns, out |-> View(node.read[k].id)]
                 ELSE [nodes |-> ns, out |-> TypeError]
       ELSE [nodes |-> [ns EXCEPT ![n].read = (k :> val) @@ @], out |-> val]

\* The has trap.
TrapHas(h, ns, n, k) ==
    LET b == ReflectHas(h, Ref(ns[n].obj), k)
    IN [nodes |-> [ns EXCEPT ![n].has = (k :> b) @@ @],
        out |-> [t |-> "bool", b |-> b]]

\* The ownKeys trap.
TrapOwnKeys(h, ns, n) ==
    LET ks == ReflectOwnKeys(h, Ref(ns[n].obj))
    IN [nodes |-> [ns EXCEPT ![n].ownKeys = Some(ks)],
        out |-> [t |-> "keys", s |-> ks]]

\* track with the test `typeof target !== 'object'` alone, which null passes.
trackNullPasses(h, target) ==
    IF target.t \notin {"ref", "null"} THEN TypeError
    ELSE Ok(<<makeNode(h, IF target.t = "ref" THEN target ELSE Ref(1), <<>>)>>)

\* track(target): a TypeError unless target is a non-null object; otherwise
\* the root node and its proxy.
track(h, target) ==
    IF target.t # "ref" THEN TypeError
    ELSE Ok(<<makeNode(h, target, <<>>)>>)

\* Only the proxy of the root is revoked.
rootRevokeOnly(ns) == {1}

\* allRevokes: makeProxy pushes the revoke function of every proxy it makes,
\* one per node.
allRevokes(ns) == 1..Len(ns)

\* A proxy that revoke() leaves working.
NotRevocable(rv, n, ns, r) == r

\* Proxy.revocable: every operation on a revoked proxy throws a TypeError
\* without running a trap; r is what the trap does otherwise.
Revocable(rv, n, ns, r) ==
    IF n \in rv THEN [nodes |-> ns, out |-> TypeError] ELSE r

\* What an enumeration yields to its caller from the list ks of the ownKeys
\* trap: Object.keys asks the target for the descriptor of each string key
\* (no trap is defined for it) and keeps the enumerable ones.
Enumerated(h, v, how, ks) ==
    IF how = "Object.keys"
    THEN LET Keep(k) == k \in Deref(h, v).enum /\ ~IsSymbol(k)
         IN SelectSeq(ks, Keep)
    ELSE ks

\* The operations on a view other than get, has and ownKeys.
OtherOps ==
    {"set", "defineProperty", "deleteProperty", "setPrototypeOf",
     "preventExtensions", "getPrototypeOf", "isExtensible",
     "getOwnPropertyDescriptor", "apply", "construct"}

\* new Error(trackNotSupported(name)) / new Error(trackWriteErrorMessage(name))
TracerUnsupported == [t |-> "Error"]

\* The traps of the other operations throw; the getOwnPropertyDescriptor trap
\* is commented out, so the query is forwarded to the target; the target of a
\* view is never callable, so calling or constructing a view is a TypeError
\* raised before the apply / construct trap is looked at.
TrapOther(h, ns, n, op, k) ==
    [nodes |-> ns,
     out |-> CASE op = "getOwnPropertyDescriptor" ->
                     IF k \in Range(ReflectOwnKeys(h, Ref(ns[n].obj)))
                     THEN [t |-> "descriptor",
                           value |-> ReflectGet(h, Ref(ns[n].obj), k),
                           enumerable |-> k \in Deref(h, Ref(ns[n].obj)).enum]
                     ELSE Undefined
               [] op \in {"apply", "construct"} -> TypeError
               [] OTHER -> TracerUnsupported]

\* The imprint object of node n as it stands, children included.
RECURSIVE rawNode(_, _)
rawNode(ns, n) ==
    LET node == ns[n]
    IN ImpTag @@ ("ctor" :> node.ctor)
       @@ ("read" :> MapOf({<<k, IF node.read[k].t = "node"
                                     THEN rawNode(ns, node.read[k].id)
                                     ELSE node.read[k]>> :
                               k \in DOMAIN node.read}))
       @@ ("has" :> node.has)
       @@ Opt("ownKeys", node.ownKeys # None,
              IF node.ownKeys # None THEN node.ownKeys[1] ELSE <<>>)

\* cleanNode(node): has and read are deleted when Object.keys finds no key in
\* them; Object.entries visits the children under string keys only.
RECURSIVE cleanNode(_, _)
cleanNode(ns, n) ==
    LET node == ns[n]
        read == MapOf({<<k, IF node.read[k].t = "node"
                                THEN IF IsSymbol(k)
                                     THEN rawNode(ns, node.read[k].id)
                                     ELSE cleanNode(ns, node.read[k].id)
                                ELSE node.read[k]>> :
                          k \in DOMAIN node.read})
    IN ImpTag @@ ("ctor" :> node.ctor)
       @@ Opt("read", ObjectKeysOfMap(node.read) # {}, read)
       @@ Opt("has", ObjectKeysOfMap(node.has) # {}, node.has)
       @@ Opt("ownKeys", node.ownKeys # None,
              IF node.ownKeys # None THEN node.ownKeys[1] ELSE <<>>)

\* getTrackAndRevoke(): the cleaned root node.
getTrackAndRevoke(ns) == cleanNode(ns, 1)

-----------------------------------------------------------------------------
(* Specification of track: SpecTrack *)

PlainObj(ctor, own, pairs) ==
    [ctor |-> ctor, own |-> own, enum |-> Range(own), val |-> MapOf(pairs)]

\* The object graphs handed to track; the root is object 1.
TrackHeaps ==
    { \* a nested object
      << PlainObj("Object", <<"x", "c">>, {<<"x", Prim(1)>>, <<"c", Ref(2)>>}),
         PlainObj("Object", <<"x", "y">>, {<<"x", Prim(1)>>, <<"y", Prim(2)>>}) >>,
      \* the same object under two keys
      << PlainObj("Object", <<"p", "q">>, {<<"p", Ref(2)>>, <<"q", Ref(2)>>}),
         PlainObj("Object", <<"x", "y">>, {<<"x", Prim(1)>>, <<"y", Prim(2)>>}) >>,
      \* the array [1]: length is an own, non-enumerable key
      << [ctor |-> "Array", own |-> <<"0", "length">>, enum |-> {"0"},
          val |-> MapOf({<<"0", Prim(1)>>, <<"length", Prim(1)>>})] >>,
      \* an object without prototype
      << PlainObj("None", <<"x">>, {<<"x", Prim(1)>>}) >>,
      \* a class instance with a symbol key
      << PlainObj("Foo", <<"x", "@s">>, {<<"x", Prim(1)>>, <<"@s", Prim(2)>>}) >>,
      \* an empty object under a string key and under a symbol key
      << PlainObj("Object", <<"c", "@s">>, {<<"c", Ref(2)>>, <<"@s", Ref(2)>>}),
         PlainObj("Object", <<>>, {}) >> }

\* The keys used to access the object of node n: its own keys and a missing
\* one.
KeysOf(h, ns, n) == Range(h[ns[n].obj].own) \cup {"m"}

\* What track is called with: the root object, or null, undefined, a number.
TrackTargets == {Ref(1), Null, Undefined, Prim(1)}

InitTrack ==
    /\ collected = {}
    /\ sA = NotRun
    /\ sB = NotRun
    /\ sOut = NotRun
    /\ roots = <<>>
    /\ inserted = <<>>
    /\ res = NotRun
    /\ heap \in TrackHeaps
    /\ \E target \in TrackTargets :
       \E r \in { track(heap, target) } :
          /\ tacc = [op |-> "track", target |-> target]
          /\ nodes = IF Threw(r) THEN <<>> ELSE r.value
          /\ phase = IF Threw(r) THEN "failed" ELSE "tracing"
          /\ tout = IF Threw(r) THEN r ELSE View(1)
    /\ frozen = NotRun
    /\ tlog = {}
    /\ handed = {}
    /\ revoked = {}
    /\ nops = [acc |-> 0, mut |-> 0, call |-> 0, eval |-> 0]
    /\ fn = <<>>
    /\ NoCaches

\* The record of an access in tlog; the latest access of a key replaces the
\* earlier one, and a primitive replaces what was recorded below the key.
Logged(log, path, kind, k, v) ==
    LET Below(o) == /\ Len(o.p) > Len(path)
                    /\ SubSeq(o.p, 1, Len(path) + 1) = Append(path, k)
        kept == {o \in log :
                    /\ ~(o.p = path /\ o.kind = kind /\ o.key = k)
                    /\ (kind = "read" /\ v.t # "object") => ~Below(o)}
    IN kept \cup {[p |-> path, kind |-> kind, key |-> k, v |-> v]}

\* The program holds views and may use them, before getTrackAndRevoke and
\* after it.
Accessing == phase \in {"tracing", "revoked"} /\ nops.acc < MaxAccesses

\* view[k] on the view of node n
GetTrap ==
    /\ Accessing
    /\ \E n \in 1..Len(nodes) :
       \E k \in KeysOf(heap, nodes, n) :
       \E r \in { Revocable(revoked, n, nodes, TrapGet(heap, nodes, n, k)) } :
          /\ nodes' = r.nodes
          /\ tout' = r.out
          /\ tacc' = [op |-> "get", n |-> n, key |-> k]
          /\ tlog' = IF r.out = TypeError THEN tlog
                     ELSE Logged(tlog, nodes[n].path, "read", k,
                                 IF r.out.t = "view" THEN [t |-> "object"]
                                 ELSE r.out)
          /\ handed' = IF r.out.t = "view"
                       THEN handed \cup {[n |-> n, key |-> k, id |-> r.out.id]}
                       ELSE handed
    /\ nops' = [nops EXCEPT !.acc = @ + 1]
    /\ UNCHANGED <<collected, splitVars, mapVars, res, heap, phase, frozen,
                   revoked, fn, cacheVars>>

\* (k in view) on the view of node n
HasTrap ==
    /\ Accessing
    /\ \E n \in 1..Len(nodes) :
       \E k \in KeysOf(heap, nodes, n) :
       \E r \in { Revocable(revoked, n, nodes, TrapHas(heap, nodes, n, k)) } :
          /\ nodes' = r.nodes
          /\ tout' = r.out
          /\ tacc' = [op |-> "has", n |-> n, key |-> k]
          /\ tlog' = IF r.out = TypeError THEN tlog
                     ELSE Logged(tlog, nodes[n].path, "has", k, r.out)
    /\ nops' = [nops EXCEPT !.acc = @ + 1]
    /\ UNCHANGED <<collected, splitVars, mapVars, res, heap, phase, frozen,
                   handed, revoked, fn, cacheVars>>

\* Reflect.ownKeys(view) or Object.keys(view) on the view of node n: both run
\* the ownKeys trap; Object.keys then keeps the enumerable string keys.
OwnKeysTrap ==
    /\ Accessing
    /\ \E n \in 1..Len(nodes), how \in {"Reflect.ownKeys", "Object.keys"} :
       \E r \in { Revocable(revoked, n, nodes, TrapOwnKeys(heap, nodes, n)) } :
          /\ nodes' = r.nodes
          /\ tout' = IF r.out = TypeError THEN r.out
                     ELSE [t |-> "keys",
                           s |-> Enumerated(heap, Ref(nodes[n].obj), how,
                                            r.out.s)]
          /\ tacc' = [op |-> "ownKeys", n |-> n, key |-> how]
          /\ tlog' = IF r.out = TypeError THEN tlog
                     ELSE Logged(tlog, nodes[n].path, "ownKeys", "", r.out)
    /\ nops' = [nops EXCEPT !.acc = @ + 1]
    /\ UNCHANGED <<collected, splitVars, mapVars, res, heap, phase, frozen,
                   handed, revoked, fn, cacheVars>>

\* Any other operation on the view of node n.
OtherTrap ==
    /\ phase \in {"tracing", "revoked"}
    /\ \E n \in 1..Len(nodes), op \in OtherOps :
       \E k \in IF op = "getOwnPropertyDescriptor"
                THEN KeysOf(heap, nodes, n) ELSE {""} :
       \E r \in { Revocable(revoked, n, nodes,
                            TrapOther(heap, nodes, n, op, k)) } :
          /\ nodes' = r.nodes
          /\ tout' = r.out
          /\ tacc' = [op |-> op, n |-> n, key |-> k]
    /\ UNCHANGED <<collected, splitVars, mapVars, res, heap, phase, frozen,
                   tlog, handed, revoked, nops, fn, cacheVars>>

\* The program assigns an existing property of a tracked object directly
\* (not through a view).
Mutate ==
    /\ phase = "tracing"
    /\ nops.mut < MaxMutations
    /\ \E o \in 1..Len(heap) :
          \E k \in Range(heap[o].own) :
             \E v \in {Prim(1), Prim(2)} \cup {Ref(j) : j \in 2..Len(heap)} :
                /\ heap[o].val[k] # v
                /\ heap' = [heap EXCEPT ![o].val[k] = v]
    /\ nops' = [nops EXCEPT !.mut = @ + 1]
    /\ UNCHANGED <<collected, splitVars, mapVars, res, trackVars,
                   fn, cacheVars>>

\* getTrackAndRevoke()
Finalize ==
    /\ phase = "tracing"
    /\ phase' = "revoked"
    /\ frozen' = getTrackAndRevoke(nodes)
    /\ revoked' = allRevokes(nodes)
    /\ UNCHANGED <<collected, splitVars, mapVars, res, heap, nodes, tlog, tout,
                   tacc, handed, nops, fn, cacheVars>>

NextTrack == GetTrap \/ HasTrap \/ OwnKeysTrap \/ Mutate \/ Finalize

SpecTrack == InitTrack /\ [][NextTrack]_vars

\* The views under the operations that are not tracked: the program reads
\* its way to a view and applies one of the other operations to it.
NextOther == GetTrap \/ OtherTrap \/ Finalize

SpecOther == InitTrack /\ [][NextOther]_vars

\* C4: for every object and every sequence of accesses through its views,
\* the imprint returned by getTrackAndRevoke matches the object.
C4_ImprintMatchesOrigin ==
    (phase = "revoked" /\ nops.mut = 0) => match(heap, frozen, Ref(1))

\* C10: the frozen imprint holds, at the node of each access path, read[k]
\* for every key read (the last value observed, or a child imprint), has[k]
\* for every key probed and ownKeys exactly when the keys were enumerated,
\* and nothing else.
C10_ImprintIsTheAccessLog ==
    phase = "revoked" =>
        {o \in Obs(frozen, <<>>) : o.kind # "ctor"} = tlog

\* C11: the sub-imprint at read.k is the node made for the path ending in
\* k, and every entry of the imprint at a path was recorded by an access made
\* through the view of that path: with one object under the keys p and q, an
\* access through view.p adds nothing below read.q.
C11_PathSensitive ==
    phase \in {"tracing", "revoked"} =>
        /\ \A n \in 1..Len(nodes) : \A k \in DOMAIN nodes[n].read :
              nodes[n].read[k].t = "node" =>
                  nodes[nodes[n].read[k].id].path = Append(nodes[n].path, k)
        /\ \A o \in Obs(rawNode(nodes, 1), <<>>) :
              o.kind # "ctor" =>
                  \E a \in tlog : a.p = o.p /\ a.kind = o.kind /\ a.key = o.key

\* C11 happens: one object has been reached under two keys, and x has been
\* read through one of the two views only.
C11_Witness ==
    \E n, m \in 1..Len(nodes) :
        /\ n # m
        /\ nodes[n].obj = nodes[m].obj
        /\ "x" \in DOMAIN nodes[n].read
        /\ "x" \notin DOMAIN nodes[m].read

\* C12: the reads of one key on one view that yield an object all yield the
\* same view.
C12_ViewStability ==
    \A a, b \in handed : (a.n = b.n /\ a.key = b.key) => a.id = b.id

\* C12 happens: a read has just yielded a view that an earlier read made.
C12_Witness ==
    /\ phase = "tracing"
    /\ tacc.op = "get"
    /\ tout.t = "view"
    /\ tout.id < Len(nodes)
    /\ nops.mut > 0

\* C13: before getTrackAndRevoke, a read through a view yields the value the
\* same read yields on the object of the view (a view of it for an object), a
\* probe the same boolean and an enumeration the same keys, and none of them
\* changes an object.
C13_ViewBehavesLikeRoot ==
    [][(phase = "tracing" /\ nops'.acc = nops.acc + 1) =>
          LET obj == Ref(nodes[tacc'.n].obj)
              k == tacc'.key
              v == ReflectGet(heap, obj, k)
          IN /\ heap' = heap
             /\ tacc'.op = "get" =>
                   IF v.t = "ref"
                   THEN tout'.t = "view" /\ nodes'[tout'.id].obj = v.id
                   ELSE tout' = v
             /\ tacc'.op = "has" =>
                   tout' = [t |-> "bool", b |-> ReflectHas(heap, obj, k)]
             /\ tacc'.op = "ownKeys" =>
                   tout' = [t |-> "keys",
                            s |-> IF k = "Object.keys"
                                  THEN ObjectKeys(heap, obj)
                                  ELSE ReflectOwnKeys(heap, obj)]]_vars

\* C14: once getTrackAndRevoke has returned, no operation through a view
\* changes the imprint it returned, nor the nodes the imprint is made of.
C14_FrozenAfterFinalize ==
    [][phase = "revoked" => (frozen' = frozen /\ nodes' = nodes)]_vars

\* C14 happens: a view has been probed after getTrackAndRevoke.
C14_Witness ==
    /\ phase = "revoked"
    /\ tacc.op = "has"
    /\ tout = TypeError
    /\ Len(nodes) > 1

\* C15 as stated: after getTrackAndRevoke a property read through a view
\* yields the raw value of the property and records nothing.
C15_RawValueAfterFinalize ==
    [][(phase = "revoked" /\ tacc'.op = "get" /\ nops'.acc = nops.acc + 1) =>
          /\ tout' = ReflectGet(heap, Ref(nodes[tacc'.n].obj), tacc'.key)
          /\ nodes' = nodes
          /\ tlog' = tlog]_vars

\* C15 as amended: after getTrackAndRevoke a property read through a view
\* fails with a TypeError (the proxy is revoked) and records nothing.
C15_ThrowsAfterFinalize ==
    [][(phase = "revoked" /\ tacc'.op = "get" /\ nops'.acc = nops.acc + 1) =>
          /\ tout' = TypeError
          /\ nodes' = nodes
          /\ tlog' = tlog]_vars

\* C15 happens: a key that was not read while tracing has been read through
\* a view after getTrackAndRevoke.
C15_Witness ==
    /\ phase = "revoked"
    /\ tacc.op = "get"
    /\ tacc.key \notin DOMAIN nodes[tacc.n].read
    /\ tout = TypeError

\* C16: before getTrackAndRevoke, every operation on a view other than a
\* read, a probe and an enumeration fails with the tracer's error and records
\* nothing.
C16_OtherOperationsFail ==
    [][(phase = "tracing" /\ tacc'.op \in OtherOps) =>
          (tout' = TracerUnsupported /\ nodes' = nodes)]_vars

\* C17: track fails with a TypeError for null, undefined and a primitive, and
\* then makes no node and no view.
C17_InvalidTargetThrows ==
    (tacc.op = "track" /\ tacc.target.t # "ref") =>
        (tout = TypeError /\ nodes = <<>> /\ handed = {} /\ phase = "failed")

\* C17 happens: track has been called with null.
C17_Witness == phase = "failed" /\ tacc.op = "track" /\ tacc.target = Null

\* C18: an enumeration through a view stores in ownKeys the sequence of keys
\* it yields to its caller, in place of what an earlier one stored.
C18_OwnKeysStoredAsYielded ==
    [][(phase = "tracing" /\ tacc'.op = "ownKeys"
            /\ nops'.acc = nops.acc + 1) =>
          nodes'[tacc'.n].ownKeys = Some(tout'.s)]_vars

-----------------------------------------------------------------------------
(* Specification of match alone: SpecMatch *)

\* The imprints handed to match: with and without ctor, with the read, has
\* and ownKeys entries the tracer and the splits produce.
MatchSub == Imprint(Some("Foo"), Some(MapOf({<<"a", Prim(1)>>})), None, None)

MatchImprints ==
    { Imprint(c, r, hz, ks) :
        c \in {None, Some("Object"), Some("Foo")},
        r \in {None,
               Some(MapOf({<<"x", Prim(1)>>})),
               Some(MapOf({<<"x", Undefined>>})),
               Some(MapOf({<<"x", Prim(1)>>, <<"y", MatchSub>>})),
               Some(MapOf({<<"y", Prim(2)>>, <<"@s", Prim(1)>>}))},
        hz \in {None,
                Some(MapOf({<<"x", TRUE>>})),
                Some(MapOf({<<"y", FALSE>>}))},
        ks \in {None, Some(<<>>), Some(<<"x">>), Some(<<"x", "y">>),
                Some(<<"y", "x">>)} }

\* A function: typeof gives 'function', not 'object'.
Function == [t |-> "function"]

\* The values handed to match as obj.
MatchValues ==
    MapObjects
    \cup { Null, Undefined, Prim(1), Function,
           Obj("Object", <<"y", "x">>, {<<"x", Prim(1)>>, <<"y", Prim(2)>>}),
           Obj("None", <<"x">>, {<<"x", Prim(1)>>}),
           Obj("Object", <<"x", "y">>,
               {<<"x", Prim(1)>>, <<"y", Obj("Foo", <<"a">>, {<<"a", Prim(1)>>})>>}),
           Obj("Foo", <<"x", "y">>,
               {<<"x", Prim(1)>>, <<"y", Obj("Foo", <<"a">>, {<<"a", Prim(1)>>})>>}) }

InitMatch ==
    /\ collected = {}
    /\ sA \in MatchImprints
    /\ sB = NotRun
    /\ sOut = NotRun
    /\ roots = <<>>
    /\ inserted = <<>>
    /\ res = NotRun
    /\ heap = <<>>
    /\ nodes = <<>>
    /\ phase = "idle"
    /\ frozen = NotRun
    /\ tlog = {}
    /\ tout = NotRun
    /\ tacc = NotRun
    /\ handed = {}
    /\ revoked = {}
    /\ nops = [acc |-> 0, mut |-> 0, call |-> 0, eval |-> 0]
    /\ fn = <<>>
    /\ NoCaches

\* match(sA, obj)
Match ==
    /\ \E obj \in MatchValues :
          res' = [t |-> "match", obj |-> obj, out |-> match(NoHeap, sA, obj)]
    /\ UNCHANGED <<collected, splitVars, mapVars, heap, trackVars, nops,
                   fn, cacheVars>>

NextMatch == Match \/ Collect

SpecMatch == InitMatch /\ [][NextMatch]_vars

\* The conditions under which an imprint is said to hold of a value: the
\* value is a non-null object (not a function); with the constructor rule, a constructor that
\* is set and live is the constructor of the object; every probe of has gives
\* the recorded boolean; the enumerable own keys are the recorded sequence,
\* in length and position by position; every key of read gives the recorded
\* primitive or, recursively, a value the nested imprint holds of.
RECURSIVE Holds(_, _, _)
Holds(imp, obj, ctorRule) ==
    /\ obj.t \in {"ref", "obj"}
    /\ (ctorRule /\ Has(imp, "ctor") /\ imp.ctor \notin collected) =>
           obj.ctor = imp.ctor
    /\ \A k \in DOMAIN HasOf(imp) : (k \in DOMAIN obj.val) = imp.has[k]
    /\ Has(imp, "ownKeys") =>
           LET ks == SelectSeq(obj.own,
                               LAMBDA k : k \in obj.enum /\ k \notin SymbolKeys)
           IN /\ Len(ks) = Len(imp.ownKeys)
              /\ \A i \in 1..Len(ks) : ks[i] = imp.ownKeys[i]
    /\ \A k \in DOMAIN ReadOf(imp) :
           LET actual == IF k \in DOMAIN obj.val THEN obj.val[k] ELSE Undefined
           IN IF imp.read[k].t = "imp"
              THEN Holds(imp.read[k], actual, ctorRule)
              ELSE actual = imp.read[k]

\* C19 as stated: match returns true exactly when obj is a non-null object,
\* every key of has is probed with the recorded boolean, the own keys are the
\* recorded sequence and every key of read gives the recorded value or
\* matches the nested imprint.
C19_MatchIffListed ==
    res.t = "match" => res.out = Holds(sA, res.obj, FALSE)

\* C19 as amended: match returns true exactly when those conditions hold and,
\* when the ctor of the imprint (or of a nested imprint) is set and its
\* handle live, the constructor of the object is that constructor.
C19_MatchIffListedAndCtor ==
    res.t = "match" => res.out = Holds(sA, res.obj, TRUE)

\* C19 happens: an imprint with read, has and ownKeys entries has matched.
C19_Witness ==
    /\ res.t = "match"
    /\ res.out
    /\ Has(sA, "read") /\ Has(sA, "has")
    /\ Has(sA, "ownKeys") /\ Len(sA.ownKeys) = 2

\* The imprint without its ctor.
WithoutCtor(imp) == [f \in DOMAIN imp \ {"ctor"} |-> imp[f]]

\* C20: with a ctor whose handle is live, match is false for every object
\* with another constructor; with a ctor whose handle is dead, match gives
\* what it gives for the imprint without ctor.
C20_CtorCheckedWhileLive ==
    (res.t = "match" /\ Has(sA, "ctor")) =>
        /\ (sA.ctor \notin collected /\ IsObject(res.obj)
               /\ res.obj.ctor # sA.ctor) => ~res.out
        /\ sA.ctor \in collected =>
               res.out = match(NoHeap, WithoutCtor(sA), res.obj)

\* C20 happens: an imprint whose constructor has been collected has matched
\* an object of another constructor.
C20_Witness ==
    /\ res.t = "match"
    /\ res.out
    /\ Has(sA, "ctor") /\ sA.ctor \in collected
    /\ res.obj.ctor # sA.ctor

\* The two values give the same answer to every observation the imprint
\* asserts: the constructor where ctor is set, `key in obj` for the keys of
\* has, Object.keys where ownKeys is set, and obj[key] for the keys of read,
\* where two objects read under a nested imprint are compared on what that
\* imprint asserts and any other two values must be the same value.
RECURSIVE Agree(_, _, _)
Agree(imp, o1, o2) ==
    IF IsObject(o1) /\ IsObject(o2)
    THEN /\ Has(imp, "ctor") =>
               ConstructorOf(NoHeap, o1) = ConstructorOf(NoHeap, o2)
         /\ \A key \in DOMAIN HasOf(imp) :
               ReflectHas(NoHeap, o1, key) = ReflectHas(NoHeap, o2, key)
         /\ Has(imp, "ownKeys") =>
               ObjectKeys(NoHeap, o1) = ObjectKeys(NoHeap, o2)
         /\ \A key \in DOMAIN ReadOf(imp) :
               LET v1 == ReflectGet(NoHeap, o1, key)
                   v2 == ReflectGet(NoHeap, o2, key)
               IN IF IsImprint(imp.read[key]) /\ IsObject(v1) /\ IsObject(v2)
                  THEN Agree(imp.read[key], v1, v2)
                  ELSE v1 = v2
    ELSE o1 = o2

\* C21: match depends only on the tracked footprint: an object that agrees
\* with the matched object on every observation the imprint asserts gets the
\* same result from match, whatever its other properties are.
C21_FootprintOnly ==
    res.t = "match" =>
        \A o2 \in MatchValues :
            Agree(sA, res.obj, o2) => match(NoHeap, sA, o2) = res.out

\* C21 happens: the imprint has matched an object, and another object with
\* other own keys agrees with it on the footprint.
C21_Witness ==
    /\ res.t = "match"
    /\ res.out
    /\ Has(sA, "read")
    /\ \E o2 \in MatchValues :
          /\ IsObject(o2)
          /\ Agree(sA, res.obj, o2)
          /\ Range(o2.own) # Range(res.obj.own)

-----------------------------------------------------------------------------
(* ProxyCacheStore (src/unnamed/part_002) *)

MaxCalls == 3

\* The heap of a cache store: the instance, the object {instance, args} and
\* the args array built for a call, and the objects passed as argument.
InstanceId == 1
RootId == 2
ArgsId == 3
ArgIds == {4, 5}

\* What a step of the wrapped function yields to it.
Seen(v) == IF v.t \in {"ref", "view"} THEN [t |-> "object"] ELSE v

\* The wrapped function applied to the views: it reads the keys of its
\* argument one step after the other and returns what it saw.
RECURSIVE RunSteps(_, _, _, _, _, _)
RunSteps(h, ns, n, prog, i, acc) ==
    IF i > Len(prog) THEN [nodes |-> ns, obs |-> acc]
    ELSE
    Only({ LET step == prog[i]
               \* Object.keys(view) keeps the enumerable string keys of the
               \* list the ownKeys trap returns
               seen == IF step.op = "keys"
                       THEN [t |-> "keys", s |-> ObjectKeys(h, Ref(ns[n].obj))]
                       ELSE Seen(r.out)
           IN RunSteps(h, r.nodes, n, prog, i + 1, Append(acc, seen)) :
           r \in { CASE prog[i].op = "get" -> TrapGet(h, ns, n, prog[i].key)
                     [] prog[i].op = "has" -> TrapHas(h, ns, n, prog[i].key)
                     [] prog[i].op = "keys" -> TrapOwnKeys(h, ns, n) } })

\* track({instance, args}) and fn.apply(proxiedArgs.instance,
\* proxiedArgs.args): apply reads length and the elements of the args view.
\* The accesses happen one after the other, each on the nodes the previous
\* one left.
RunTraced(h, prog) ==
    Only({ Only({ Only({ Only({ Only({
        [nodes |-> body.nodes,
         result |-> [t |-> "ret", arg |-> Seen(r4.out), obs |-> body.obs]] :
        body \in { IF r4.out.t = "view"
                   THEN RunSteps(h, r4.nodes, r4.out.id, prog, 1, <<>>)
                   ELSE [nodes |-> r4.nodes, obs |-> <<>>] } }) :
        r4 \in { TrapGet(h, r3.nodes, r2.out.id, "0") } }) :
        r3 \in { TrapGet(h, r2.nodes, r2.out.id, "length") } }) :
        r2 \in { TrapGet(h, r1.nodes, 1, "args") } }) :
        r1 \in { TrapGet(h, <<makeNode(h, Ref(RootId), <<>>)>>, 1,
                         "instance") } })

\* The wrapped function evaluated directly on the current input.
DirectStep(h, arg, step) ==
    CASE step.op = "get" -> Seen(ReflectGet(h, arg, step.key))
      [] step.op = "has" -> [t |-> "bool", b |-> ReflectHas(h, arg, step.key)]
      [] step.op = "keys" -> [t |-> "keys", s |-> ObjectKeys(h, arg)]

DirectEval(h, prog) ==
    LET arg == h[ArgsId].val["0"]
    IN [t |-> "ret", arg |-> Seen(arg),
        obs |-> IF arg.t = "ref"
                THEN [i \in 1..Len(prog) |-> DirectStep(h, arg, prog[i])]
                ELSE <<>>]

\* ProxyCacheStore.getValue(fn, instance, args)
getValue(h, rts, prog) ==
    Only({ IF ~Threw(look)
           THEN [roots |-> rts, out |-> look, hit |-> TRUE,
                 evaluated |-> FALSE, imprint |-> NotRun, result |-> NotRun]
           ELSE
           Only({ Only({ Only({
               [roots |-> IF Threw(ins) THEN rts ELSE ins.value,
                out |-> IF Threw(ins) THEN ins ELSE Ok(run.result),
                hit |-> FALSE, evaluated |-> TRUE, imprint |-> imp,
                result |-> run.result] :
               ins \in { insertIntoList(rts, imp, run.result) } }) :
               imp \in { getTrackAndRevoke(run.nodes) } }) :
               run \in { RunTraced(h, prog) } }) :
           look \in { lookupInList(h, rts, Ref(RootId)) } })

-----------------------------------------------------------------------------
(* Specification of ProxyCacheStore: SpecStore *)

Get_(k) == [op |-> "get", key |-> k]
Has_(k) == [op |-> "has", key |-> k]
Keys_ == [op |-> "keys", key |-> ""]

\* The wrapped functions: each returns what it reads from its argument.
Programs ==
    { <<Get_("a")>>, <<Keys_, Get_("a")>>, <<Has_("b"), Get_("a")>>,
      <<Get_("c"), Keys_>> }

StoreHeap(arg4, arg5) ==
    << PlainObj("Foo", <<>>, {}),
       PlainObj("Object", <<"instance", "args">>,
                {<<"instance", Ref(InstanceId)>>, <<"args", Ref(ArgsId)>>}),
       [ctor |-> "Array", own |-> <<"0", "length">>, enum |-> {"0"},
        val |-> MapOf({<<"0", Prim(1)>>, <<"length", Prim(1)>>})],
       arg4, arg5 >>

StoreHeaps ==
    { StoreHeap(PlainObj("Foo", <<"a">>, {<<"a", Prim(1)>>}),
                PlainObj("Object", <<"a">>, {<<"a", Prim(1)>>})),
      StoreHeap(PlainObj("Object", <<"c">>, {<<"c", Ref(5)>>}),
                PlainObj("Object", <<>>, {})) }

InitStore ==
    /\ collected = {}
    /\ sA = NotRun
    /\ sB = NotRun
    /\ sOut = NotRun
    /\ roots = <<>>
    /\ inserted = <<>>
    /\ res = NotRun
    /\ heap \in StoreHeaps
    /\ nodes = <<>>
    /\ phase = "idle"
    /\ frozen = NotRun
    /\ tlog = {}
    /\ tout = NotRun
    /\ tacc = NotRun
    /\ handed = {}
    /\ revoked = {}
    /\ nops = [acc |-> 0, mut |-> 0, call |-> 0, eval |-> 0]
    /\ fn \in Programs
    /\ NoCaches

\* A call of the cached method with one argument.
Call ==
    /\ nops.call < MaxCalls
    /\ \E arg \in {Ref(i) : i \in ArgIds} \cup {Prim(1)} :
       \E h \in { [heap EXCEPT ![ArgsId].val["0"] = arg] } :
       \E r \in { getValue(h, roots, fn) } :
             /\ heap' = h
             /\ roots' = r.roots
             /\ res' = [t |-> "call", out |-> r.out, hit |-> r.hit]
             /\ nops' = [nops EXCEPT !.call = @ + 1,
                                     !.eval = @ + (IF r.evaluated THEN 1 ELSE 0)]
             /\ inserted' = IF r.evaluated
                            THEN Append(inserted,
                                        [imprint |-> r.imprint,
                                         value |-> r.result,
                                         threw |-> Threw(r.out)])
                            ELSE inserted
    /\ UNCHANGED <<collected, splitVars, trackVars, fn, cacheVars>>

\* Between two calls the program assigns or adds a property of an argument
\* object.
MutateArg ==
    /\ nops.mut < MaxMutations
    /\ \E o \in ArgIds, k \in {"a", "b"}, v \in {Prim(1), Prim(2)} :
          /\ k \in DOMAIN heap[o].val => heap[o].val[k] # v
          /\ heap' = [heap EXCEPT
                        ![o].val = (k :> v) @@ @,
                        ![o].own = IF k \in Range(@) THEN @ ELSE Append(@, k),
                        ![o].enum = @ \cup {k}]
    /\ res' = NotRun
    /\ nops' = [nops EXCEPT !.mut = @ + 1]
    /\ UNCHANGED <<collected, splitVars, mapVars, trackVars, fn, cacheVars>>

NextStore == Call \/ MutateArg

SpecStore == InitStore /\ [][NextStore]_vars

\* The number of entries of the map: the nodes that carry a value.
RECURSIVE Entries(_)
Entries(list) ==
    IF list = <<>> THEN 0
    ELSE (IF HasValue(Head(list)) THEN 1 ELSE 0)
         + Entries(Head(list).children) + Entries(Tail(list))

\* C1: each getValue call returns the value the function returns when it is
\* evaluated directly on the current input.
C1_ReturnsDirectValue ==
    res.t = "call" => res.out = Ok(DirectEval(heap, fn))

\* C9: getValue evaluates the function exactly when the lookup fails; on a
\* miss it inserts exactly one (imprint, result) entry; on a hit it returns
\* the stored value without evaluating and without changing the map.
C9_MissEvaluatesAndInsertsOnce ==
    [][(res'.t = "call" /\ nops'.call = nops.call + 1) =>
          /\ (nops'.eval = nops.eval + 1) <=> ~res'.hit
          /\ (nops'.eval = nops.eval) <=> res'.hit
          /\ ~res'.hit => /\ Entries(roots') = Entries(roots) + 1
                          /\ res'.out = Ok(inserted'[Len(inserted')].value)
          /\ res'.hit => /\ roots' = roots
                         /\ res'.out = lookupInList(heap', roots, Ref(RootId))
      ]_vars


-----------------------------------------------------------------------------
(* The cache decorator and JsonKeyCacheStore (src/src/cache.ts) *)

\* The decorated methods of the class and the instances of the class.
Methods == {"compute2x", "compute3x"}
Instances == {"a", "b"}

\* An array, a promise (by identity) and the exception a method throws.
Arr(items) == [t |-> "arr", items |-> items]
Promise(n) == [t |-> "promise", id |-> n]
Thrown == [t |-> "thrown"]

\* JSON.stringify: a number gives its digits, null gives null, an array its
\* items between brackets (undefined and functions as null), an object its
\* enumerable string-keyed members between braces (members whose value is
\* undefined or a function are left out); a promise has no such member.
NoJSON(v) == v.t \in {"undef", "function"}

RECURSIVE JSONStringify(_), JSONItems(_), JSONMembers(_, _)

JSONItems(s) ==
    IF s = <<>> THEN ""
    ELSE (IF NoJSON(Head(s)) THEN "null" ELSE JSONStringify(Head(s)))
         \o (IF Len(s) > 1 THEN "," \o JSONItems(Tail(s)) ELSE "")

JSONMembers(o, ks) ==
    IF ks = <<>> THEN ""
    ELSE "\"" \o Head(ks) \o "\":" \o JSONStringify(o.val[Head(ks)])
         \o (IF Len(ks) > 1 THEN "," \o JSONMembers(o, Tail(ks)) ELSE "")

JSONStringify(v) ==
    CASE v.t = "prim" -> ToString(v.v)
      [] v.t = "null" -> "null"
      [] v.t = "arr" -> "[" \o JSONItems(v.items) \o "]"
      [] v.t = "promise" -> "{}"
      [] v.t = "obj" ->
            LET Kept(k) == k \in v.enum /\ ~IsSymbol(k) /\ ~NoJSON(v.val[k])
            IN "{" \o JSONMembers(v, SelectSeq(v.own, Kept)) \o "}"

\* The instance as an object: its only own property is the clearCaches
\* function the initializer may have set.
InstanceObj(cl, a) ==
    IF a \in cl
    THEN Obj("A", <<"clearCaches">>, {<<"clearCaches", Function>>})
    ELSE Obj("A", <<>>, {})

\* opts.key({instance, args}): the default `x => x` ("default"), or
\* `({args: [x]}) => [x]` of the tests ("firstArg").
keyOf(o, cl, a, args) ==
    IF o.key = "default"
    THEN Obj("Object", <<"instance", "args">>,
             {<<"instance", InstanceObj(cl, a)>>, <<"args", Arr(args)>>})
    ELSE Arr(<<args[1]>>)

\* JSON.stringify(this.opts.key({instance, args}))
argsKeyOf(o, cl, a, args) == JSONStringify(keyOf(o, cl, a, args))

\* getValue that takes a stored undefined for a missing entry
\* (`this.get(argsKey) === undefined` instead of `!this.has(argsKey)`).
JsonKeyGetValueByGet(store, argsKey, outcome) ==
    IF argsKey \notin DOMAIN store \/ store[argsKey] = Undefined
    THEN IF outcome = Thrown
         THEN [store |-> store, out |-> Thrown, hit |-> FALSE,
               evaluated |-> TRUE]
         ELSE [store |-> (argsKey :> outcome) @@ store, out |-> outcome,
               hit |-> FALSE, evaluated |-> TRUE]
    ELSE [store |-> store, out |-> store[argsKey], hit |-> TRUE,
          evaluated |-> FALSE]

\* getValue that stores an entry before it evaluates the function.
JsonKeyGetValueSetFirst(store, argsKey, outcome) ==
    IF argsKey \notin DOMAIN store
    THEN IF outcome = Thrown
         THEN [store |-> (argsKey :> Undefined) @@ store, out |-> Thrown,
               hit |-> FALSE, evaluated |-> TRUE]
         ELSE [store |-> (argsKey :> outcome) @@ store, out |-> outcome,
               hit |-> FALSE, evaluated |-> TRUE]
    ELSE [store |-> store, out |-> store[argsKey], hit |-> TRUE,
          evaluated |-> FALSE]

\* JsonKeyCacheStore.getValue on a store, where outcome is what
\* fn.apply(instance, args) yields if it is evaluated: a value or Thrown.
JsonKeyGetValue(store, argsKey, outcome) ==
    IF argsKey \notin DOMAIN store
    THEN IF outcome = Thrown
         THEN [store |-> store, out |-> Thrown, hit |-> FALSE,
               evaluated |-> TRUE]
         ELSE [store |-> (argsKey :> outcome) @@ store, out |-> outcome,
               hit |-> FALSE, evaluated |-> TRUE]
    ELSE [store |-> store, out |-> store[argsKey], hit |-> TRUE,
          evaluated |-> FALSE]

\* Map.delete / WeakMap.delete
Delete(map, ks) == [k \in DOMAIN map \ ks |-> map[k]]

\* wrapped with one store per method, whatever the instance.
instanceCacheKeyShared(m, a) == <<m, "a">>

\* instanceCacheMap of method m is a WeakMap of its own, keyed by the
\* (unwrapped) instance; no unwrap function is registered.
instanceCacheKey(m, a) == <<m, a>>

\* wrapped: the store of the instance is made on its first call.
wrapped(cs, o, cl, m, a, args, outcome) ==
    LET ck == instanceCacheKey(m, a)
        instanceCache == IF ck \in DOMAIN cs THEN cs[ck] ELSE EmptyMap
        argsKey == argsKeyOf(o[m], cl, a, args)
    IN Only({ [caches |-> (ck :> r.store) @@ cs, key |-> argsKey,
               store |-> ck, out |-> r.out, hit |-> r.hit,
               evaluated |-> r.evaluated]
              : r \in { JsonKeyGetValue(instanceCache, argsKey, outcome) } })

\* The initializer registers every method, noClearCache or not.
RegisteredAll(o) == DOMAIN o

\* The methods whose initializer sets clearCache and registers the cache
\* with the class: those without noClearCache.
Registered(o) == {m \in DOMAIN o : ~o[m].noClearCache}

\* wrapped.clearCache is a property of the one wrapped function of the
\* class: it clears the instance whose initializer ran last.
clearCacheTarget(cf, m, a) == cf[m]


\* The variables of the tracking engine, unused by the decorator.
NoEngine ==
    /\ collected = {}
    /\ sA = NotRun
    /\ sB = NotRun
    /\ sOut = NotRun
    /\ roots = <<>>
    /\ inserted = <<>>
    /\ res = NotRun
    /\ heap = <<>>
    /\ nodes = <<>>
    /\ phase = "idle"
    /\ frozen = NotRun
    /\ tlog = {}
    /\ tout = NotRun
    /\ tacc = NotRun
    /\ handed = {}
    /\ revoked = {}
    /\ nops = [acc |-> 0, mut |-> 0, call |-> 0, eval |-> 0]
    /\ fn = <<>>

engineVars == <<collected, splitVars, mapVars, res, heap, trackVars, fn>>

\* The options of a decorated method.
Options(key, noCacheOnReject, cacheOnSettled, noClearCache) ==
    [key |-> key, noCacheOnReject |-> noCacheOnReject,
     cacheOnSettled |-> cacheOnSettled, noClearCache |-> noClearCache]

\* The arguments of the calls and what an evaluation of the method yields:
\* a number, undefined, a new pending promise, or an exception.
ArgValues == {Prim(2), Undefined, Null}
Outcomes(n) == {Prim(10), Undefined, Promise(n), Thrown}

\* The results of compute2x and compute3x in the tests of the decorator.
Results == {Prim(v) : v \in Values}

\* class A { @cache compute2x (x) {...}  @cache(...) compute3x (x) {...} }
\* where compute3x may be decorated with noClearCache.
InitCache ==
    /\ NoEngine
    /\ opts \in { [m \in Methods |->
                     Options("default", FALSE, FALSE, m = "compute3x" /\ n)]
                  : n \in BOOLEAN }
    /\ made = <<>>
    /\ clearFn = [m \in DOMAIN opts |-> "none"]
    /\ klassCaches = {}
    /\ clearers = {}
    /\ caches = <<>>
    /\ evald = <<>>
    /\ cres = NotRun
    /\ promises = <<>>
    /\ jobs = <<>>
    /\ calls = <<>>
    /\ observed = <<>>

\* new A(): the initializer of every decorated method runs on the instance.
Construct ==
    /\ \E a \in Instances \ Range(made) :
          /\ made' = Append(made, a)
          /\ clearFn' = [m \in DOMAIN opts |->
                            IF m \in Registered(opts) THEN a ELSE clearFn[m]]
          /\ klassCaches' = klassCaches \cup Registered(opts)
          /\ clearers' = IF Registered(opts) # {} THEN clearers \cup {a}
                         ELSE clearers
          /\ cres' = [t |-> "new", a |-> a]
    /\ UNCHANGED <<engineVars, nops, opts, caches, evald, asyncVars>>

\* The evaluations that returned, per store and key.
Counted(ev, r) ==
    LET old == IF r.store \in DOMAIN ev THEN ev[r.store] ELSE EmptyMap
        n == IF r.key \in DOMAIN old THEN old[r.key] ELSE 0
    IN IF r.evaluated /\ r.out # Thrown
       THEN (r.store :> ((r.key :> n + 1) @@ old)) @@ ev
       ELSE (r.store :> old) @@ ev

\* a.m(x), for an argument of xs and a method that yields one of outs.
CallWith(xs, outs) ==
    /\ nops.call < MaxCalls
    /\ \E m \in DOMAIN opts, a \in Range(made), x \in xs, outcome \in outs :
          \E r \in { wrapped(caches, opts, clearers, m, a, <<x>>, outcome) } :
             /\ caches' = r.caches
             /\ evald' = Counted(evald, r)
             /\ cres' = [t |-> "call", m |-> m, a |-> a, args |-> <<x>>,
                         key |-> r.key, hit |-> r.hit, out |-> r.out,
                         evaluated |-> r.evaluated]
             /\ nops' = [nops EXCEPT !.call = @ + 1,
                                     !.eval = @ + IF r.evaluated THEN 1 ELSE 0]
    /\ UNCHANGED <<engineVars, decoVars, asyncVars>>

\* a.m(x) in a class of two methods that return numbers.
CallMethod == CallWith({Prim(2)}, Results)

\* a.m.clearCache(): undefined (a TypeError when called) unless an
\* initializer has set wrapped.clearCache.
ClearCache ==
    /\ nops.call < MaxCalls
    /\ \E m \in DOMAIN opts, a \in Range(made) :
          IF clearFn[m] = "none"
          THEN /\ cres' = [t |-> "clearCache", m |-> m, a |-> a,
                           out |-> TypeError]
               /\ UNCHANGED <<caches, evald>>
          ELSE \E gone \in { {instanceCacheKey(m,
                                  clearCacheTarget(clearFn, m, a))} } :
                  /\ caches' = Delete(caches, gone)
                  /\ evald' = Delete(evald, gone)
                  /\ cres' = [t |-> "clearCache", m |-> m, a |-> a,
                              out |-> Undefined]
    /\ nops' = [nops EXCEPT !.call = @ + 1]
    /\ UNCHANGED <<engineVars, decoVars, asyncVars>>

\* a.clearCaches(): set by the first initializer that registers a method;
\* deletes the instance from every registered instanceCacheMap.
ClearCaches ==
    /\ nops.call < MaxCalls
    /\ \E a \in Range(made) :
          IF a \notin clearers
          THEN /\ cres' = [t |-> "clearCaches", a |-> a, out |-> TypeError]
               /\ UNCHANGED <<caches, evald>>
          ELSE \E gone \in { {instanceCacheKey(m, a) : m \in klassCaches} } :
                  /\ caches' = Delete(caches, gone)
                  /\ evald' = Delete(evald, gone)
                  /\ cres' = [t |-> "clearCaches", a |-> a,
                              out |-> Undefined]
    /\ nops' = [nops EXCEPT !.call = @ + 1]
    /\ UNCHANGED <<engineVars, decoVars, asyncVars>>

NextCache == Construct \/ CallMethod \/ ClearCache \/ ClearCaches

SpecCache == InitCache /\ [][NextCache]_vars


\* class A { @cache getX (obj) {...} } and const a = new A(): one method
\* whose evaluation may yield anything, on one instance.
InitJson ==
    /\ NoEngine
    /\ opts = ("getX" :> Options("default", FALSE, FALSE, FALSE))
    /\ made = <<"a">>
    /\ clearFn = ("getX" :> "a")
    /\ klassCaches = {"getX"}
    /\ clearers = {"a"}
    /\ caches = <<>>
    /\ evald = <<>>
    /\ cres = NotRun
    /\ promises = <<>>
    /\ jobs = <<>>
    /\ calls = <<>>
    /\ observed = <<>>

\* a.getX(x)
CallStore == CallWith(ArgValues, Outcomes(nops.eval + 1))

NextJson == CallStore \/ ClearCache

SpecJson == InitJson /\ [][NextJson]_vars


-----------------------------------------------------------------------------
(* Properties of the decorator and of JsonKeyCacheStore *)

\* The entries cached for method m on instance a (none before its first
\* call and after a clear).
StoreAt(cs, m, a) == IF <<m, a>> \in DOMAIN cs THEN cs[<<m, a>>] ELSE EmptyMap

C27_ThrowStoresNothing ==
    [][ cres'.t = "call" =>
          /\ cres'.out = Thrown =>
                /\ StoreAt(caches', cres'.m, cres'.a)
                      = StoreAt(caches, cres'.m, cres'.a)
                /\ cres'.key \notin DOMAIN StoreAt(caches', cres'.m, cres'.a)
          /\ (/\ cres.t = "call"
              /\ cres.out = Thrown
              /\ <<cres'.m, cres'.a, cres'.key>> = <<cres.m, cres.a, cres.key>>)
                => nops'.eval = nops.eval + 1
      ]_vars

\* C27 happens: three calls in a row have thrown, over two keys: a call has
\* been evaluated again after a call with its key had thrown.
C27_Witness ==
    /\ cres.t = "call"
    /\ cres.out = Thrown
    /\ nops.call = 3
    /\ nops.eval = 3
    /\ StoreAt(caches, cres.m, cres.a) = EmptyMap

\* C28: a call of method m on instance a is served from the cache of m on a
\* alone and changes no other cache: the function is evaluated exactly when
\* that cache has no entry for the key, and the cache of every other method
\* and of every other instance is left as it was.
C28_CachesIsolated ==
    [][ cres'.t = "call" =>
          /\ cres'.evaluated
                <=> cres'.key \notin DOMAIN StoreAt(caches, cres'.m, cres'.a)
          /\ nops'.eval = nops.eval + (IF cres'.evaluated THEN 1 ELSE 0)
          /\ \A m \in DOMAIN opts, a \in Instances :
                <<m, a>> # <<cres'.m, cres'.a>>
                   => StoreAt(caches', m, a) = StoreAt(caches, m, a)
      ]_vars

\* C28 happens: a call on b has evaluated the function although the cache
\* of the method on a and the cache of the other method on b hold its key.
C28_Witness ==
    /\ cres.t = "call"
    /\ cres.a = "b"
    /\ cres.evaluated
    /\ cres.key \in DOMAIN StoreAt(caches, cres.m, "a")
    /\ \E m \in DOMAIN opts \ {cres.m} :
          cres.key \in DOMAIN StoreAt(caches, m, "b")

\* C29: a.m.clearCache(), for a method m without noClearCache, empties the
\* cache of m for a and leaves the cache of every other method and of every
\* other instance unchanged.
C29_ClearCacheOfInstance ==
    [][ (cres'.t = "clearCache" /\ ~opts[cres'.m].noClearCache) =>
          /\ StoreAt(caches', cres'.m, cres'.a) = EmptyMap
          /\ \A m \in DOMAIN opts, a \in Instances :
                <<m, a>> # <<cres'.m, cres'.a>>
                   => StoreAt(caches', m, a) = StoreAt(caches, m, a)
      ]_vars

\* C30: a.clearCaches() empties the cache of every method without
\* noClearCache for a; it leaves unchanged the cache of every method with
\* noClearCache, which has no clearCache function, and the caches of every
\* other instance.
C30_ClearCachesOfInstance ==
    [][ cres'.t = "clearCaches" =>
          /\ cres'.out = Undefined
          /\ \A m \in DOMAIN opts :
                /\ ~opts[m].noClearCache
                      => StoreAt(caches', m, cres'.a) = EmptyMap
                /\ opts[m].noClearCache
                      => /\ StoreAt(caches', m, cres'.a)
                               = StoreAt(caches, m, cres'.a)
                         /\ clearFn[m] = "none"
                /\ \A a \in Instances \ {cres'.a} :
                      StoreAt(caches', m, a) = StoreAt(caches, m, a)
      ]_vars

\* C30 happens: after two evaluations, a.clearCaches() has left the entry
\* of the noClearCache method of a and no other entry: it has emptied the
\* cache of the other method of a.
C30_Witness ==
    /\ cres.t = "clearCaches"
    /\ cres.out = Undefined
    /\ nops.call = 3
    /\ nops.eval = 2
    /\ \A m \in DOMAIN opts, a \in Instances :
          StoreAt(caches, m, a) # EmptyMap
             <=> (opts[m].noClearCache /\ a = cres.a)
    /\ \E m \in DOMAIN opts : opts[m].noClearCache


-----------------------------------------------------------------------------
(* noCacheOnReject and cacheOnSettled (src/src/track.ts) *)

\* The method compute2x (x, label) of the tests, on the instance a; the key
\* is made from x alone.
AsyncMethod == "compute2x"
AsyncInstance == "a"
XValues == {Prim(3), Prim(4)}

\* The reason of a rejection, and the array [result, argsKey, isHit] that
\* getValue returns.
Reason == [t |-> "reason"]
Triple(result, argsKey, isHit) ==
    [t |-> "triple", result |-> result, argsKey |-> argsKey, isHit |-> isHit]

\* A pending promise: kind "fn" for the promise an evaluation of the method
\* returns (for key, with args, started by the call by), kind "async" for
\* the promise of an async function of the decorator.
Pending(kind, key, args, by) ==
    [st |-> "pending", v |-> Undefined, rs |-> <<>>, kind |-> kind,
     key |-> key, args |-> args, by |-> by]

\* await x with the continuation rx: a reaction of the promise while it is
\* pending, a microtask of its own otherwise.
Await(w, x, rx) ==
    IF x.t = "promise"
    THEN IF w.promises[x.id].st = "pending"
         THEN [w EXCEPT !.promises[x.id].rs = Append(@, rx)]
         ELSE [w EXCEPT !.jobs = Append(@, [rx |-> rx,
                                            st |-> w.promises[x.id].st,
                                            v |-> w.promises[x.id].v])]
    ELSE [w EXCEPT !.jobs = Append(@, [rx |-> rx, st |-> "fulfilled",
                                       v |-> x])]

\* A promise settles: its reactions become microtasks, in their order.
SettleP(w, n, st, v) ==
    [w EXCEPT !.promises[n].st = st,
              !.promises[n].v = v,
              !.promises[n].rs = <<>>,
              !.jobs = @ \o [i \in 1..Len(w.promises[n].rs) |->
                               [rx |-> w.promises[n].rs[i], st |-> st,
                                v |-> v]]]

\* JsonKeyCacheStore.getValue of track.ts, by call c: the evaluation of the
\* method returns a new pending promise.
target(w, key, args, c) ==
    Only({ [w |-> [w EXCEPT !.store = r.store,
                            !.promises =
                                IF r.evaluated
                                THEN Append(@, Pending("fn", key, args, c))
                                ELSE @],
            result |-> r.out, isHit |-> r.hit]
           : r \in { JsonKeyGetValue(w.store, key,
                                     Promise(Len(w.promises) + 1)) } })

\* The continuation of noCacheOnReject that keeps the rejected entry.
deleteRejectedKeep(store, argsKey) == store

\* noCacheOnReject, on rejection: self.delete(argsKey)
deleteRejected(store, argsKey) == Delete(store, {argsKey})

\* cacheOnSettled that leaves the pending promise in the store.
deletePendingKeep(store, argsKey) == store

\* cacheOnSettled, on a miss that returned a promise: this.delete(argsKey)
deletePending(store, argsKey) == Delete(store, {argsKey})

\* getValue of the store class of the method, by call c: the getValue of
\* JsonKeyCacheStore, wrapped by noCacheOnReject or by cacheOnSettled.
gv(w, o, key, args, c) ==
    Only({
        IF o.noCacheOnReject
        THEN IF ~r.isHit THEN [w |-> r.w, ret |-> r.result, hit |-> FALSE]
             ELSE [w |-> Await([r.w EXCEPT !.promises =
                                   Append(@, Pending("async", key, args, c))],
                               r.result,
                               [r |-> "noCacheOnReject", call |-> c,
                                p |-> Len(r.w.promises) + 1, key |-> key,
                                args |-> args]),
                   ret |-> Promise(Len(r.w.promises) + 1), hit |-> TRUE]
        ELSE IF o.cacheOnSettled
        THEN IF r.isHit \/ r.result.t # "promise"
             THEN [w |-> r.w, ret |-> r.result, hit |-> r.isHit]
             ELSE [w |-> Await([r.w EXCEPT
                                   !.store = deletePending(@, key),
                                   !.promises =
                                     Append(@, Pending("async", key, args, c))],
                               r.result,
                               [r |-> "cacheOnSettled", call |-> c,
                                p |-> Len(r.w.promises) + 1, key |-> key,
                                args |-> args]),
                   ret |-> Promise(Len(r.w.promises) + 1), hit |-> FALSE]
        ELSE [w |-> r.w, ret |-> r.result, hit |-> r.isHit]
        : r \in { target(w, key, args, c) } })

\* One microtask.
\* caller: the continuation of the caller's await.
\* noCacheOnReject: `val = await result` has yielded or thrown: the async
\*   function returns val, or deletes the entry and returns what getValue
\*   returns, the array [result, argsKey, isHit].
\* cacheOnSettled: `v = await result` has yielded (the value is stored and
\*   returned) or thrown (the async function rejects with the reason).
runJob(w, job) ==
    LET rx == job.rx
    IN CASE rx.r = "caller" ->
              [w EXCEPT !.observed = Append(@, [call |-> rx.call,
                                                st |-> job.st, v |-> job.v])]
         [] rx.r = "noCacheOnReject" ->
              IF job.st = "fulfilled"
              THEN SettleP(w, rx.p, "fulfilled", job.v)
              ELSE Only({ SettleP(r.w, rx.p, "fulfilled",
                                  Triple(r.result, rx.key, r.isHit))
                          : r \in { target([w EXCEPT !.store =
                                              deleteRejected(@, rx.key)],
                                           rx.key, rx.args, rx.call) } })
         [] rx.r = "cacheOnSettled" ->
              IF job.st = "fulfilled"
              THEN SettleP([w EXCEPT !.store = (rx.key :> job.v) @@ @],
                           rx.p, "fulfilled", job.v)
              ELSE SettleP(w, rx.p, "rejected", job.v)

\* The store of the instance, the promises, the microtasks and what the
\* callers have seen, as one record.
World ==
    [store |-> StoreAt(caches, AsyncMethod, AsyncInstance),
     promises |-> promises, jobs |-> jobs, observed |-> observed]

\* The record written back to the variables.
Becomes(w) ==
    /\ caches' = (<<AsyncMethod, AsyncInstance>> :> w.store) @@ caches
    /\ promises' = w.promises
    /\ jobs' = w.jobs
    /\ observed' = w.observed

\* class A { @cache({noCacheOnReject or cacheOnSettled or neither,
\* key: ({args: [x]}) => [x]}) compute2x (x, label) {...} }; a = new A()
InitAsync ==
    /\ NoEngine
    /\ opts \in { (AsyncMethod :> Options("firstArg", nr, cs, FALSE))
                  : nr \in BOOLEAN, cs \in BOOLEAN } \
                { (AsyncMethod :> Options("firstArg", TRUE, TRUE, FALSE)) }
    /\ made = <<AsyncInstance>>
    /\ clearFn = (AsyncMethod :> AsyncInstance)
    /\ klassCaches = {AsyncMethod}
    /\ clearers = {AsyncInstance}
    /\ caches = <<>>
    /\ evald = <<>>
    /\ cres = NotRun
    /\ promises = <<>>
    /\ jobs = <<>>
    /\ calls = <<>>
    /\ observed = <<>>

\* await a.compute2x(x, label): wrapped gets the store of the instance and
\* calls its getValue; the caller awaits what it returns.
CallAsync ==
    /\ Len(calls) < MaxCalls
    /\ \E x \in XValues :
          \E c \in {Len(calls) + 1} :
          \E key \in {argsKeyOf(opts[AsyncMethod], clearers, AsyncInstance,
                                <<x, Prim(c)>>)} :
          \E r \in {gv(World, opts[AsyncMethod], key, <<x, Prim(c)>>, c)} :
             /\ Becomes(Await(r.w, r.ret, [r |-> "caller", call |-> c]))
             /\ calls' = Append(calls,
                    [key |-> key, args |-> <<x, Prim(c)>>, ret |-> r.ret,
                     hit |-> r.hit,
                     pending |-> \/ key \notin DOMAIN World.store
                                 \/ /\ World.store[key].t = "promise"
                                    /\ promises[World.store[key].id].st
                                          = "pending",
                     on |-> IF r.hit THEN World.store[key] ELSE r.ret])
             /\ cres' = [t |-> "call"]
    /\ UNCHANGED <<engineVars, nops, decoVars, evald>>

\* The promise returned by an evaluation fulfils or rejects.
Settle ==
    /\ \E n \in 1..Len(promises) :
          /\ promises[n].kind = "fn"
          /\ promises[n].st = "pending"
          /\ \E o \in {<<"fulfilled", Prim(v)>> : v \in Values}
                      \cup {<<"rejected", Reason>>} :
                /\ Becomes(SettleP(World, n, o[1], o[2]))
                /\ cres' = [t |-> "settle"]
    /\ UNCHANGED <<engineVars, nops, decoVars, evald, calls>>

\* The first microtask of the queue runs.
RunJob ==
    /\ jobs # <<>>
    /\ Becomes(runJob([World EXCEPT !.jobs = Tail(@)], Head(jobs)))
    /\ cres' = [t |-> "job"]
    /\ UNCHANGED <<engineVars, nops, decoVars, evald, calls>>

NextAsync == CallAsync \/ Settle \/ RunJob

SpecAsync == InitAsync /\ [][NextAsync]_vars


-----------------------------------------------------------------------------
(* Properties of noCacheOnReject and cacheOnSettled *)

\* The evaluations of the method: the promises it has returned.
Evaluations(ps) == {n \in 1..Len(ps) : ps[n].kind = "fn"}

\* C22: with noCacheOnReject, at most one evaluation is pending for a key:
\* no call and no retry starts an evaluation for a key while the promise of
\* another evaluation for that key is not settled.
C22_SingleFlight ==
    opts[AsyncMethod].noCacheOnReject =>
        \A i, j \in Evaluations(promises) :
            (/\ promises[i].st = "pending"
             /\ promises[j].st = "pending"
             /\ promises[i].key = promises[j].key) => i = j

\* C23: with noCacheOnReject, when the promise a call had hit rejects, the
\* continuation of that call removes the rejected promise from the store and
\* evaluates the function again, with the arguments of that call.
C23_RejectedHitRetries ==
    [][ (/\ opts[AsyncMethod].noCacheOnReject
         /\ cres'.t = "job"
         /\ Head(jobs).rx.r = "noCacheOnReject"
         /\ Head(jobs).st = "rejected") =>
           LET rx == Head(jobs).rx
               n == Len(promises) + 1
               store == StoreAt(caches', AsyncMethod, AsyncInstance)
           IN /\ Evaluations(promises') = Evaluations(promises) \cup {n}
              /\ promises'[n].args = calls[rx.call].args
              /\ promises'[n].key = calls[rx.call].key
              /\ rx.key \in DOMAIN store
              /\ store[rx.key] = Promise(n)
      ]_vars

\* C23 happens: a call that had hit a promise has started an evaluation
\* after that promise rejected.
C23_Witness ==
    /\ opts[AsyncMethod].noCacheOnReject
    /\ \E n \in Evaluations(promises) :
          /\ calls[promises[n].by].hit
          /\ promises[calls[promises[n].by].on.id].st = "rejected"
          /\ promises[n].args = calls[promises[n].by].args

\* C24: with noCacheOnReject, a call that has hit a pending promise does not
\* settle before the call that started the evaluation: when that promise
\* fulfils, the call that started the evaluation observes the value first and
\* the hitting call observes the same value after it.
C24_StarterObservesFirst ==
    opts[AsyncMethod].noCacheOnReject =>
        \A i \in 1..Len(observed) :
            LET h == calls[observed[i].call]
            IN (/\ h.hit
                /\ h.pending
                /\ promises[h.on.id].st = "fulfilled"
                /\ observed[i].st = "fulfilled") =>
                   \E j \in 1..(i - 1) :
                       /\ observed[j].call = promises[h.on.id].by
                       /\ observed[j].st = "fulfilled"
                       /\ observed[j].v = observed[i].v

\* C25: with cacheOnSettled, the store holds an entry for a key only after a
\* promise returned by an evaluation for that key has fulfilled, and the
\* entry is a fulfilled value, never a promise; a call whose key has no entry
\* starts an evaluation of its own, a call whose key has an entry returns the
\* entry without evaluation; a fulfilment stores its value and a rejection
\* leaves the store as it was.
C25_StoredWhenFulfilled ==
    [][ opts[AsyncMethod].cacheOnSettled =>
          LET old == StoreAt(caches, AsyncMethod, AsyncInstance)
              new == StoreAt(caches', AsyncMethod, AsyncInstance)
          IN /\ \A k \in DOMAIN new :
                   /\ new[k].t # "promise"
                   /\ \E n \in Evaluations(promises') :
                         /\ promises'[n].key = k
                         /\ promises'[n].st = "fulfilled"
                         /\ promises'[n].v = new[k]
             /\ cres'.t = "call" =>
                   LET c == Len(calls')
                   IN IF calls'[c].key \in DOMAIN old
                      THEN /\ Evaluations(promises') = Evaluations(promises)
                           /\ calls'[c].ret = old[calls'[c].key]
                           /\ new = old
                      ELSE \E n \in Evaluations(promises')
                                      \ Evaluations(promises) :
                              /\ promises'[n].by = c
                              /\ promises'[n].key = calls'[c].key
                              /\ promises'[n].st = "pending"
             /\ (cres'.t = "job" /\ Head(jobs).rx.r = "cacheOnSettled") =>
                   IF Head(jobs).st = "rejected"
                   THEN new = old
                   ELSE /\ Head(jobs).rx.key \in DOMAIN new
                        /\ new[Head(jobs).rx.key] = Head(jobs).v
      ]_vars

\* C25 happens: an evaluation for a key has rejected, another has fulfilled,
\* and a call with that key has been served the stored value.
C25_Witness ==
    /\ opts[AsyncMethod].cacheOnSettled
    /\ \E c \in 1..Len(calls) :
          /\ calls[c].hit
          /\ calls[c].ret.t = "prim"
          /\ \E n \in Evaluations(promises) :
                promises[n].key = calls[c].key /\ promises[n].st = "rejected"
          /\ \E i \in 1..Len(observed) :
                observed[i].call = c /\ observed[i].v = calls[c].ret


-----------------------------------------------------------------------------
(* Claims on the shape of the split and of the tree *)

\* Two imprints share an assertion other than "this key holds an object".
Shares(A, B) == \E o \in Obs(A, <<>>) \cap Obs(B, <<>>) : Proper(o)

\* The roots whose imprint shares an assertion with the imprint of the
\* insert that the step performs.
SharingRoots(imprint) ==
    {i \in 1..Len(roots) : Shares(roots[i].imprint, imprint)}

\* C31: an insert of an imprint that shares no assertion with the imprint of
\* any root appends a new leaf root with the value and changes no existing
\* root; a root is replaced only when it shares an assertion with the incoming
\* imprint, and then only the first such root from the left.
C31_DisjointInsertAppends ==
    [][Len(inserted') = Len(inserted) + 1 =>
        \E e \in {inserted'[Len(inserted')]} :
          \E shared \in {SharingRoots(e.imprint)} :
            /\ shared = {} => roots' = Append(roots, Leaf(e.imprint, e.value))
            /\ shared # {} =>
                  /\ Len(roots') = Len(roots)
                  /\ \A i \in 1..Len(roots) :
                        roots'[i] # roots[i] =>
                            /\ i \in shared
                            /\ \A j \in shared : i <= j]_vars

\* A side of a split that asserts nothing: no ctor, no read, no has and no
\* ownKeys.
AssertsNothing(side) == side # Null => Obs(side, <<>>) = {}

\* C32: split returns null, not an empty imprint, for every side that has no
\* ctor, no non-empty read or has and no ownKeys: I is null when A and B share
\* nothing and a remainder is null when the other imprint subsumes it.
C32_EmptySideIsNull ==
    sOut.t = "split" =>
        /\ \A side \in {sOut.i, sOut.a, sOut.b} :
              AssertsNothing(side) => side = Null
        /\ ~Shares(sA, sB) => sOut.i = Null
        /\ Obs(sA, <<>>) \subseteq Obs(sB, <<>>) => sOut.a = Null
        /\ Obs(sB, <<>>) \subseteq Obs(sA, <<>>) => sOut.b = Null

\* Both imprints carry a live handle to the same constructor.
SameLiveCtor(A, B) ==
    /\ Has(A, "ctor")
    /\ Has(B, "ctor")
    /\ A.ctor \notin collected
    /\ A.ctor = B.ctor

\* C33: in split(A, B) the ctor goes to I exactly when both sides carry a live
\* handle to the same constructor; in every other case (different
\* constructors, a dead handle, a ctor on one side only or on neither) split
\* still returns a result in which each remainder keeps its own ctor if it has
\* one and I has none.
C33_CtorPlacement ==
    [][(sOut = NotRun /\ sOut' # NotRun) =>
        /\ sOut'.t = "split"
        /\ IF SameLiveCtor(sA, sB)
           THEN /\ Has(sOut'.i, "ctor") /\ sOut'.i.ctor = sA.ctor
                /\ ~Has(sOut'.a, "ctor")
                /\ ~Has(sOut'.b, "ctor")
           ELSE /\ ~Has(sOut'.i, "ctor")
                /\ Has(sOut'.a, "ctor") <=> Has(sA, "ctor")
                /\ Has(sOut'.b, "ctor") <=> Has(sB, "ctor")
                /\ Has(sA, "ctor") => sOut'.a.ctor = sA.ctor
                /\ Has(sB, "ctor") => sOut'.b.ctor = sB.ctor]_vars

\* The value a side of a split holds under a key of has or read: Some(v), or
\* None when the side is null or has no such key.
At(side, f, k) ==
    IF side # Null /\ Has(side, f) /\ k \in DOMAIN side[f]
    THEN Some(side[f][k])
    ELSE None

\* A part of a nested split is placed under the key of the side; a null or
\* empty part may be left out.
PartPlaced(side, k, part) ==
    IF part = Null THEN At(side, "read", k) = None
    ELSE \/ At(side, "read", k) = Some(part)
         \/ Obs(part, <<>>) = {} /\ At(side, "read", k) = None

\* The placement of one key of has or read in the three sides.
KeyPlaced(f, k, i, a, b) ==
    /\ At(sOut.i, f, k) = i
    /\ At(sOut.a, f, k) = a
    /\ At(sOut.b, f, k) = b

\* C34: split handles has and read key by key: a key on one side only goes to
\* that side's remainder; a key on both sides with equal booleans or equal
\* primitives goes to I; with different ones it goes to both remainders; a
\* read key that refers to a nested imprint on both sides is split
\* recursively, whatever the nested imprints contain, and the three parts are
\* placed under that key in I, A\I and B\I.
C34_KeyByKey ==
    sOut.t = "split" =>
        \A f \in {"has", "read"} :
            \E am \in {IF Has(sA, f) THEN sA[f] ELSE EmptyMap} :
            \E bm \in {IF Has(sB, f) THEN sB[f] ELSE EmptyMap} :
            \A k \in DOMAIN am \cup DOMAIN bm :
                IF k \notin DOMAIN bm
                THEN KeyPlaced(f, k, None, Some(am[k]), None)
                ELSE IF k \notin DOMAIN am
                THEN KeyPlaced(f, k, None, None, Some(bm[k]))
                ELSE IF f = "read" /\ IsImprint(am[k]) /\ IsImprint(bm[k])
                THEN \E sub \in {trackImprintSplit(am[k], bm[k])} :
                        /\ sub.t = "split"
                        /\ PartPlaced(sOut.i, k, sub.i)
                        /\ PartPlaced(sOut.a, k, sub.a)
                        /\ PartPlaced(sOut.b, k, sub.b)
                ELSE IF am[k] = bm[k]
                THEN KeyPlaced(f, k, Some(am[k]), None, None)
                ELSE KeyPlaced(f, k, None, Some(am[k]), Some(bm[k]))

\* C36: every insert of a well-formed imprint completes without raising an
\* error, also when the imprint or a node of the tree carries no ctor.
C36_InsertNeverThrows == res.t = "set" => ~res.threw

\* The number of nodes of a list of trees that carry a value.
RECURSIVE CountValued(_)
CountValued(list) ==
    IF list = <<>> THEN 0
    ELSE (IF HasValue(Head(list)) THEN 1 ELSE 0)
         + CountValued(Head(list).children) + CountValued(Tail(list))

\* C37: after n inserts the tree holds exactly n nodes that carry a value and
\* each of them is a leaf: no insert removes, replaces or merges a value
\* stored before.
C37_EveryInsertAddsALeaf ==
    /\ CountValued(roots) = Len(inserted)
    /\ ValuedParents(roots) = {}


\* No read, has or ownKeys container of the imprint, or of an imprint nested
\* in it under a string or symbol key, is present and empty.
RECURSIVE NoEmptyContainers(_)
NoEmptyContainers(imp) ==
    /\ Has(imp, "read") => DOMAIN imp.read # {}
    /\ Has(imp, "has") => DOMAIN imp.has # {}
    /\ Has(imp, "ownKeys") => Len(imp.ownKeys) # 0
    /\ \A k \in DOMAIN ReadOf(imp) :
          IsImprint(imp.read[k]) => NoEmptyContainers(imp.read[k])

\* C35: in the imprint finalize returns, at the root and at every node nested
\* under a string or symbol key, no read, has or ownKeys container is present
\* as an empty container.
C35_NoEmptyContainers == phase = "revoked" => NoEmptyContainers(frozen)


\* C38: with noCacheOnReject, the promise returned to a call that had hit a
\* promise which then rejects settles as the evaluation its retry starts: it
\* fulfils with the value that evaluation fulfils with or rejects with its
\* reason, and with nothing else.
C38_RetrySettlesAsReevaluation ==
    opts[AsyncMethod].noCacheOnReject =>
        \A c \in 1..Len(calls) :
            (/\ calls[c].hit
             /\ promises[calls[c].on.id].st = "rejected"
             /\ promises[calls[c].ret.id].st # "pending") =>
                \E n \in Evaluations(promises) :
                    /\ promises[n].by = c
                    /\ promises[n].st = promises[calls[c].ret.id].st
                    /\ promises[n].v = promises[calls[c].ret.id].v

=============================================================================
